---- MODULE Spec2Model ----
(***************************************************************************)
(* A model of aqua's resolve-install-exec pipeline:                        *)
(*   - the exec controller (Controller.Exec, validate, install, wait,      *)
(*     execCommand, execCommandWithRetry),                                 *)
(*   - the GitHub release / GitHub content downloaders,                    *)
(*   - the link layout (createLink, recreateLink), also as called by       *)
(*     concurrent processes,                                               *)
(*   - the shims (createLinks, createHardLink, replaceWithHardlinks),      *)
(*   - the registry descriptor (Validate, UnmarshalYAML, FilePath),        *)
(*   - the HTTP registry installer (getHTTPRegistry, saveHTTPRegistry,     *)
(*     extractHTTPRegistryArchive), also as two tasks of one run,          *)
(*   - the configuration file finder (Find).                               *)
(* External collaborators (Which, the policy reader and checker, the       *)
(* package installer, the executor, the HTTP and GitHub clients, the file  *)
(* system) are interfaces in the source; the model draws their results     *)
(* nondeterministically and records every call in a log.                   *)
(***************************************************************************)
EXTENDS Integers, Sequences, FiniteSets, TLC

VARIABLES
    \* ---- exec controller ----
    pc,               \* position of Controller.Exec
    ctxDone,          \* the context passed to Exec has been cancelled
    securityConfig,   \* value of AQUA_SECURITY_CONFIG
    enabledXSysExec,  \* Controller.enabledXSysExec
    findResult,       \* what Which returned
    deferUpdate,      \* install registered the deferred checksums.UpdateFile
    i,                \* loop counter of install's poll loop
    j,                \* loop counter of execCommandWithRetry
    childRuns,        \* number of executor calls that started the child process
    calls,            \* log of the calls made to collaborators, in order
    result,           \* error returned by Exec
    \* ---- downloaders ----
    dIn,              \* the call: function, arguments, downloader.github != nil
    dpc,              \* position in the called function
    dClose,           \* GetGitHubContentFile deferred body.Close()
    dAssets,          \* release.Assets returned by GetReleaseByTag
    dAssetID,         \* assetID found by getAssetIDFromAssets
    dRedirect,        \* redirectURL returned by DownloadReleaseAsset
    dcalls,           \* log of the calls made to the HTTP and GitHub clients
    dret,             \* what the function returned: body or bytes, and error
    \* ---- link layout ----
    fs,               \* the file system: what is at each path of <root>/bin
    lpc,              \* per caller: position in createLink
    largs,            \* per caller: linkPath and linkDest of the call
    lmode,            \* per caller: the file mode Lstat reported
    lops,             \* per caller: file system operations of the call
    lret,             \* per caller: error returned by createLink
    lpre,             \* per caller: the file system when the call began
    lprev,            \* per caller: arguments and result of the previous call
    lcount,           \* number of createLink calls made
    lfault,           \* an I/O error has made a call of createLink fail
    \* ---- shims: createLinks and replaceWithHardlinks ----
    goos,             \* is.runtime.GOOS
    hardlinkFile,     \* <root>/hardlink exists
    spc,              \* position in createLinks or replaceWithHardlinks
    sfiles,           \* what the running loop has still to go through
    sfailed,          \* createLinks' failed
    sret,             \* what the last call returned
    scount,           \* number of createLinks / replaceWithHardlinks calls
    \* ---- http registry installer ----
    hfs,              \* the file system under <root>/registries: dirs, files
    hpc,              \* per task: position in getHTTPRegistry
    hreg,             \* per task: regist
    hck,              \* per task: checksums is not nil
    hpath,            \* per task: registryFilePath
    htmp,             \* per task: tempDir, tempArchivePath and extractDir
    hcontent,         \* per task: content, then extractedContent
    hdefer,           \* per task: the deferred RemoveAll(tempDir) is pending
    hret,             \* per task: returned registry content and error
    hlog,             \* per task: the calls made, in order
    hpre,             \* per task: the file system when the call began
    hcount,           \* number of getHTTPRegistry calls made
    \* ---- registry descriptor ----
    entry,            \* the registry as written in the config or in Go
    reg,              \* the Registry value
    rpc,              \* what has been applied to it
    rvalid,           \* error returned by Validate
    rfp,              \* path and error returned by FilePath
    rroot,            \* rootDir
    rcfg,             \* cfgFilePath
    \* ---- config finder ----
    ffiles,           \* the paths that exist
    fwd,              \* wd
    fexplicit,        \* configFilePath
    fglobals,         \* globalConfigFilePaths
    fpc,              \* position in Find
    fdir,             \* the directory findconfig.Find is looking in
    fret              \* path and error returned by Find

execVars == <<pc, ctxDone, securityConfig, enabledXSysExec, findResult,
              deferUpdate, i, j, childRuns, calls, result>>

dlVars == <<dIn, dpc, dClose, dAssets, dAssetID, dRedirect, dcalls, dret>>

linkVars == <<fs, lpc, largs, lmode, lops, lret, lpre, lprev, lcount,
              lfault>>

shimVars == <<goos, hardlinkFile, spc, sfiles, sfailed, sret, scount>>

httpVars == <<hfs, hpc, hreg, hck, hpath, htmp, hcontent, hdefer, hret,
              hlog, hpre, hcount>>

regVars == <<entry, reg, rpc, rvalid, rfp, rroot, rcfg>>

findVars == <<ffiles, fwd, fexplicit, fglobals, fpc, fdir, fret>>

\* The state of the parts below the link layout.
moreVars == <<shimVars, httpVars, regVars, findVars>>

\* What the actions of one part leave unchanged.
shimOthers == <<execVars, dlVars, httpVars, regVars, findVars>>
httpOthers == <<execVars, dlVars, linkVars, shimVars, regVars, findVars>>
regOthers == <<execVars, dlVars, linkVars, shimVars, httpVars, findVars>>
findOthers == <<execVars, dlVars, linkVars, shimVars, httpVars, regVars>>

vars == <<execVars, dlVars, linkVars, moreVars>>

(***************************************************************************)
(* Exec controller                                                         *)
(***************************************************************************)

\* Paths Which can resolve an executable to.
ExePaths == {"/root/pkgs/gh", "/usr/bin/gh"}

\* Exit codes the executor can report; -1 is os.ProcessState.ExitCode's
\* "hasn't exited or was terminated by a signal".
ExitCodes == {-1, 0, 1, 2}

\* (exitCode, err) pairs of Executor.Exec, and whether the child process was
\* started: no error only for exit code 0; a child that exited was started;
\* -1 is reported both for a process that did not start and for a child
\* that a signal terminated.
ExecOutcomes ==
    {o \in [code : ExitCodes, err : BOOLEAN, started : BOOLEAN] :
        /\ (~o.err) => o.code = 0
        /\ (o.code # -1) => o.started}

\* err of Executor.ExecXSys: execve(2) either fails or replaces the process.
XSysOutcomes == {[code |-> 0, err |-> e, started |-> ~e] : e \in BOOLEAN}

\* One logged call: the operation, its path argument, whether it returned
\* without error, the exit code (executor only) and whether the context was
\* already cancelled when the call was made.
Ev(op, arg, ok, code) ==
    [op |-> op, arg |-> arg, ok |-> ok, code |-> code, ctx |-> ctxDone]

\* Errors; code is the exit code carried by an ecerror, 0 otherwise.
Err(kind, code) == [kind |-> kind, code |-> code]
NoResult == Err("none", 0)
Nil == Err("nil", 0)
errFailedToStartProcess == Err("errFailedToStartProcess", 0)

NoFind == [hasPackage |-> FALSE, exePath |-> "", checksumEnabled |-> FALSE]

\* Processes that call createLink.
Procs == {"p1", "p2"}

\* What can be at a path: nothing, a directory, a named pipe, a regular
\* file, a socket, or a symbolic link with its target.
Entry(kind, target) == [kind |-> kind, target |-> target]
Absent == Entry("absent", "")

NoArgs == [linkPath |-> "", linkDest |-> ""]
NoPrev == [linkPath |-> "", linkDest |-> "", ret |-> "none"]

\* The link layout when createLink is never called.
LinkIdle ==
    /\ fs = <<>>
    /\ lpc = [p \in Procs |-> "idle"]
    /\ largs = [p \in Procs |-> NoArgs]
    /\ lmode = [p \in Procs |-> ""]
    /\ lops = [p \in Procs |-> <<>>]
    /\ lret = [p \in Procs |-> "none"]
    /\ lpre = [p \in Procs |-> <<>>]
    /\ lprev = [p \in Procs |-> NoPrev]
    /\ lcount = 0
    /\ lfault = FALSE

\* The shims when neither createLinks nor replaceWithHardlinks is called.
ShimIdle ==
    /\ goos = "linux"
    /\ hardlinkFile = FALSE
    /\ spc = "idle"
    /\ sfiles = <<>>
    /\ sfailed = FALSE
    /\ sret = "none"
    /\ scount = 0

\* Tasks of InstallRegistries that call getHTTPRegistry.
Tasks == {"t1", "t2"}

NoReg ==
    [Name |-> "", Type |-> "", RepoOwner |-> "", RepoName |-> "", Ref |-> "",
     Path |-> "", URL |-> "", Version |-> "", Format |-> ""]

\* The temporary paths before extractHTTPRegistryArchive computes them.
NoTemp == [tempDir |-> "", tempArchivePath |-> "", extractDir |-> ""]

\* What getHTTPRegistry returns: the registry content (nil: "") and the
\* error.
HRet(cfg, err) == [cfg |-> cfg, err |-> err]

\* Nothing under <root>/registries.
EmptyFs == [dirs |-> {}, files |-> <<>>]

\* The http registry installer when getHTTPRegistry is never called.
HTTPIdle ==
    /\ hfs = EmptyFs
    /\ hpc = [t \in Tasks |-> "idle"]
    /\ hreg = [t \in Tasks |-> NoReg]
    /\ hck = [t \in Tasks |-> FALSE]
    /\ hpath = [t \in Tasks |-> ""]
    /\ htmp = [t \in Tasks |-> NoTemp]
    /\ hcontent = [t \in Tasks |-> ""]
    /\ hdefer = [t \in Tasks |-> FALSE]
    /\ hret = [t \in Tasks |-> HRet("", "none")]
    /\ hlog = [t \in Tasks |-> <<>>]
    /\ hpre = [t \in Tasks |-> EmptyFs]
    /\ hcount = 0

\* No registry descriptor is looked at.
RegIdle ==
    /\ entry = NoReg
    /\ reg = NoReg
    /\ rpc = "idle"
    /\ rvalid = "none"
    /\ rfp = [path |-> "", err |-> "none"]
    /\ rroot = ""
    /\ rcfg = ""

\* The config finder when Find is never called.
FindIdle ==
    /\ ffiles = {}
    /\ fwd = ""
    /\ fexplicit = ""
    /\ fglobals = <<>>
    /\ fpc = "idle"
    /\ fdir = ""
    /\ fret = [path |-> "", err |-> "none"]

\* The parts below the link layout are not in use.
MoreIdle == ShimIdle /\ HTTPIdle /\ RegIdle /\ FindIdle

\* Mutant: the poll loop written with i <= 10.
PollLimitOffByOne == 10 + 1

\* for i := 0; i < 10; i++ in install
PollLimit == 10
\* Mutant: the retry loop written with i <= 10.
RetryLimitOffByOne == 10 + 1

\* for i := 0; i < 10; i++ in execCommandWithRetry
RetryLimit == 10

ExecInit ==
    /\ pc = "Which"
    /\ ctxDone = FALSE
    /\ securityConfig \in {"", "policy.yaml"}
    /\ enabledXSysExec \in BOOLEAN
    /\ findResult = NoFind
    /\ deferUpdate = FALSE
    /\ i = 0
    /\ j = 0
    /\ childRuns = 0
    /\ calls = <<>>
    /\ result = NoResult

\* The exec controller when Exec is never called.
ExecIdle ==
    /\ pc = "idle"
    /\ ctxDone = FALSE
    /\ securityConfig = ""
    /\ enabledXSysExec = FALSE
    /\ findResult = NoFind
    /\ deferUpdate = FALSE
    /\ i = 0
    /\ j = 0
    /\ childRuns = 0
    /\ calls = <<>>
    /\ result = NoResult

\* The downloaders before any call.
DlIdle ==
    /\ dIn = [fn |-> "", github |-> FALSE, owner |-> "", repo |-> "",
              version |-> "", name |-> ""]
    /\ dpc = "idle"
    /\ dClose = FALSE
    /\ dAssets = <<>>
    /\ dAssetID = 0
    /\ dRedirect = ""
    /\ dcalls = <<>>
    /\ dret = [body |-> "", err |-> "none"]

\* Exec returns err.
Return(err) ==
    /\ pc' = "done"
    /\ result' = err

\* Mutant: validate and install run whether or not a package was found.
afterWhichAlwaysValidate(hasPackage) == "validate"

\* Where Exec goes after Which succeeded: validate and install only when
\* findResult.Package != nil.
afterWhich(hasPackage) == IF hasPackage THEN "validate" ELSE "execCommand"

\* findResult, err := ctrl.which.Which(...); the log keeps the returned
\* ExePath.
Which ==
    /\ pc = "Which"
    /\ \E ok \in BOOLEAN, pkg \in BOOLEAN, path \in ExePaths, cs \in BOOLEAN :
        IF ~ok
        THEN /\ calls' = Append(calls, Ev("Which", "", FALSE, 0))
             /\ Return(Err("which", 0))
             /\ findResult' = NoFind
        ELSE /\ calls' = Append(calls, Ev("Which", path, TRUE, 0))
             /\ findResult' = [hasPackage |-> pkg, exePath |-> path,
                               checksumEnabled |-> pkg /\ cs]
             /\ pc' = afterWhich(pkg)
             /\ result' = result
    /\ UNCHANGED <<ctxDone, securityConfig, enabledXSysExec, deferUpdate, i, j,
                   childRuns>>
    /\ UNCHANGED <<dlVars, linkVars, moreVars>>

\* The context is cancelled by the caller, at any moment before Exec returns.
Cancel ==
    /\ pc # "done"
    /\ ~ctxDone
    /\ ctxDone' = TRUE
    /\ UNCHANGED <<pc, securityConfig, enabledXSysExec, findResult,
                   deferUpdate, i, j, childRuns, calls, result>>
    /\ UNCHANGED <<dlVars, linkVars, moreVars>>

\* Mutant: wait sleeps without selecting on ctx.Done().
waitIgnoresCtx(cancelled) == Nil

\* wait(ctx, 10ms): the context's error when the context is already
\* cancelled (the fresh 10 ms timer has not fired), nil after the sleep.
\* A cancellation that arrives during the sleep is the Cancel step taken
\* right before or right after this one.
wait(cancelled) == IF cancelled THEN Err("ctx", 0) ELSE Nil

\* Mutant: the checker's verdict is dropped.
validateErrIgnoresDeny(cfgFilePath, readOk, allow) ==
    IF cfgFilePath = "" THEN Nil
    ELSE IF ~readOk THEN Err("readSecurityConfig", 0)
    ELSE Nil

\* The error Controller.validate returns.
validateErr(cfgFilePath, readOk, allow) ==
    IF cfgFilePath = "" THEN Nil
    ELSE IF ~readOk THEN Err("readSecurityConfig", 0)
    ELSE IF ~allow THEN Err("validateSecurity", 0)
    ELSE Nil

\* The calls Controller.validate makes.
validateCalls(cfgFilePath, readOk, allow) ==
    IF cfgFilePath = "" THEN <<>>
    ELSE IF ~readOk THEN <<Ev("ReadSecurityConfig", cfgFilePath, FALSE, 0)>>
    ELSE <<Ev("ReadSecurityConfig", cfgFilePath, TRUE, 0),
           Ev("ValidateSecurity", cfgFilePath, allow, 0)>>

\* if err := ctrl.validate(findResult.Package); err != nil { return err }
validate ==
    /\ pc = "validate"
    /\ \E readOk \in BOOLEAN, allow \in BOOLEAN :
        LET err == validateErr(securityConfig, readOk, allow) IN
        /\ calls' = calls \o validateCalls(securityConfig, readOk, allow)
        /\ IF err = Nil
           THEN pc' = "install" /\ result' = result
           ELSE Return(err)
    /\ UNCHANGED <<ctxDone, securityConfig, enabledXSysExec, findResult,
                   deferUpdate, i, j, childRuns>>
    /\ UNCHANGED <<dlVars, linkVars, moreVars>>

\* Mutant: a failed UpdateFile becomes install's error.
installReturnUpdateErr(c, err) ==
    \E updOk \in BOOLEAN :
        /\ calls' = IF deferUpdate
                    THEN Append(c, Ev("UpdateFile", "", updOk, 0))
                    ELSE c
        /\ IF deferUpdate /\ ~updOk
           THEN Return(Err("updateChecksum", 0))
           ELSE IF err = Nil
           THEN pc' = "execCommand" /\ result' = result
           ELSE Return(err)

\* install returns err after the calls c: the deferred UpdateFile runs (its
\* error is only logged), then Exec returns the error or goes on to
\* execCommandWithRetry.
installReturn(c, err) ==
    /\ \E updOk \in BOOLEAN :
        calls' = IF deferUpdate
                 THEN Append(c, Ev("UpdateFile", "", updOk, 0))
                 ELSE c
    /\ IF err = Nil
       THEN pc' = "execCommand" /\ result' = result
       ELSE Return(err)

\* The head of install: read the checksum file when checksums are enabled.
installChecksums ==
    /\ pc = "install"
    /\ IF ~findResult.checksumEnabled
       THEN /\ calls' = calls
            /\ pc' = "InstallPackage"
            /\ UNCHANGED <<deferUpdate, result>>
       ELSE \E pathOk \in BOOLEAN, readOk \in BOOLEAN :
            IF ~pathOk
            THEN /\ calls' = Append(calls, Ev("GetChecksumFilePath", "", FALSE, 0))
                 /\ Return(Err("checksumFilePath", 0))
                 /\ UNCHANGED deferUpdate
            ELSE IF ~readOk
            THEN /\ calls' = calls \o <<Ev("GetChecksumFilePath", "", TRUE, 0),
                                        Ev("ReadFile", "", FALSE, 0)>>
                 /\ Return(Err("readChecksum", 0))
                 /\ UNCHANGED deferUpdate
            ELSE /\ calls' = calls \o <<Ev("GetChecksumFilePath", "", TRUE, 0),
                                        Ev("ReadFile", "", TRUE, 0)>>
                 /\ deferUpdate' = TRUE
                 /\ pc' = "InstallPackage"
                 /\ UNCHANGED result
    /\ UNCHANGED <<ctxDone, securityConfig, enabledXSysExec, findResult, i, j,
                   childRuns>>
    /\ UNCHANGED <<dlVars, linkVars, moreVars>>

\* ctrl.packageInstaller.InstallPackage(ctx, logE, {Pkg, Checksums, ...})
InstallPackage ==
    /\ pc = "InstallPackage"
    /\ \E ok \in BOOLEAN :
        LET c == Append(calls, Ev("InstallPackage",
                                  IF deferUpdate THEN "checksums" ELSE "nil",
                                  ok, 0))
        IN  IF ok
            THEN calls' = c /\ pc' = "poll" /\ result' = result
            ELSE installReturn(c, Err("installPackage", 0))
    /\ i' = 0
    /\ UNCHANGED <<ctxDone, securityConfig, enabledXSysExec, findResult,
                   deferUpdate, j, childRuns>>
    /\ UNCHANGED <<dlVars, linkVars, moreVars>>

\* One pass of the poll loop up to the break: Stat exe_path and test the
\* owner-executable bit.
installPoll ==
    /\ pc = "poll"
    /\ i < PollLimit
    /\ \E found \in BOOLEAN :
        LET c == Append(calls, Ev("Stat", findResult.exePath, found, 0)) IN
        IF found
        THEN installReturn(c, Nil)
        ELSE calls' = c /\ pc' = "pollWait" /\ result' = result
    /\ UNCHANGED <<ctxDone, securityConfig, enabledXSysExec, findResult,
                   deferUpdate, i, j, childRuns>>
    /\ UNCHANGED <<dlVars, linkVars, moreVars>>

\* Mutant: running out of polls is an error.
installWaitExhaustedFails ==
    /\ pc = "pollWait"
    /\ LET w == wait(ctxDone)
           c == Append(calls, Ev("wait", "", w = Nil, 0))
       IN  IF w # Nil
           THEN installReturn(c, w) /\ i' = i
           ELSE /\ i' = i + 1
                /\ IF i + 1 < PollLimit
                   THEN calls' = c /\ pc' = "poll" /\ result' = result
                   ELSE installReturn(c, Err("exeNotFound", 0))
    /\ UNCHANGED <<ctxDone, securityConfig, enabledXSysExec, findResult,
                   deferUpdate, j, childRuns>>
    /\ UNCHANGED <<dlVars, linkVars, moreVars>>

\* The wait that ends a failed pass of the poll loop, and the loop's i++.
installWait ==
    /\ pc = "pollWait"
    /\ LET w == wait(ctxDone)
           c == Append(calls, Ev("wait", "", w = Nil, 0))
       IN  IF w # Nil
           THEN installReturn(c, w) /\ i' = i
           ELSE /\ i' = i + 1
                /\ IF i + 1 < PollLimit
                   THEN calls' = c /\ pc' = "poll" /\ result' = result
                   ELSE installReturn(c, Nil)
    /\ UNCHANGED <<ctxDone, securityConfig, enabledXSysExec, findResult,
                   deferUpdate, j, childRuns>>
    /\ UNCHANGED <<dlVars, linkVars, moreVars>>

\* Mutant: the error is wrapped with the general exit code 1 instead of the
\* child's.
execCommandLosesCode(xsys, out, cancelled) ==
    IF xsys
    THEN IF out.err
         THEN [retried |-> TRUE, err |-> Err("execve", 0)]
         ELSE [retried |-> FALSE, err |-> Nil]
    ELSE IF out.err
         THEN IF out.code = -1 /\ ~cancelled
              THEN [retried |-> TRUE, err |-> Err("execute", 0)]
              ELSE [retried |-> FALSE, err |-> Err("ecerror", 1)]
         ELSE [retried |-> FALSE, err |-> Nil]

\* execCommand: (retried, err) for the executor's outcome out.
execCommand(xsys, out, cancelled) ==
    IF xsys
    THEN IF out.err
         THEN [retried |-> TRUE, err |-> Err("execve", 0)]
         ELSE [retried |-> FALSE, err |-> Nil]
    ELSE IF out.err
         THEN IF out.code = -1 /\ ~cancelled
              THEN [retried |-> TRUE, err |-> Err("execute", 0)]
              ELSE [retried |-> FALSE, err |-> Err("ecerror", out.code)]
         ELSE [retried |-> FALSE, err |-> Nil]

\* One attempt of execCommandWithRetry's loop: call the executor, return
\* unless the attempt is to be retried.
execCommandWithRetry ==
    /\ pc = "execCommand"
    /\ j < RetryLimit
    /\ \E out \in (IF enabledXSysExec THEN XSysOutcomes ELSE ExecOutcomes) :
        LET r == execCommand(enabledXSysExec, out, ctxDone) IN
        /\ calls' = Append(calls, Ev(IF enabledXSysExec THEN "ExecXSys" ELSE "Exec",
                                     findResult.exePath, ~out.err, out.code))
        /\ IF r.retried
           THEN pc' = "execWait" /\ result' = result
           ELSE Return(r.err)
        /\ childRuns' = IF out.started THEN childRuns + 1 ELSE childRuns
    /\ UNCHANGED <<ctxDone, securityConfig, enabledXSysExec, findResult,
                   deferUpdate, i, j>>
    /\ UNCHANGED <<dlVars, linkVars, moreVars>>

\* The wait that follows a retried attempt, and the loop's i++.
retryWait ==
    /\ pc = "execWait"
    /\ LET w == wait(ctxDone) IN
        /\ calls' = Append(calls, Ev("wait", "", w = Nil, 0))
        /\ IF w # Nil
           THEN Return(w) /\ j' = j
           ELSE /\ j' = j + 1
                /\ IF j + 1 < RetryLimit
                   THEN pc' = "execCommand" /\ result' = result
                   ELSE Return(errFailedToStartProcess)
    /\ UNCHANGED <<ctxDone, securityConfig, enabledXSysExec, findResult,
                   deferUpdate, i, childRuns>>
    /\ UNCHANGED <<dlVars, linkVars, moreVars>>

ExecNext ==
    \/ Which
    \/ validate
    \/ installChecksums
    \/ InstallPackage
    \/ installPoll
    \/ installWait
    \/ execCommandWithRetry
    \/ retryWait
    \/ Cancel

\* Exec is called on a fresh controller; the downloaders stay idle.
InitExec == ExecInit /\ DlIdle /\ LinkIdle /\ MoreIdle

SpecExec == InitExec /\ [][ExecNext]_vars

(***************************************************************************)
(* Properties of the exec controller                                       *)
(***************************************************************************)

\* Positions of the log holding one of the operations ops.
Idx(ops) == {k \in DOMAIN calls : calls[k].op \in ops}

ExecutorOps == {"Exec", "ExecXSys"}
PolicyOps == {"ReadSecurityConfig", "ValidateSecurity"}
ChecksumOps == {"GetChecksumFilePath", "ReadFile", "UpdateFile"}

\* The step of Exec a logged call belongs to; 0 for the calls that are not
\* one of the four steps.
StepOf(op) ==
    CASE op = "Which" -> 1
      [] op \in PolicyOps -> 2
      [] op \in {"InstallPackage", "Stat"} -> 3
      [] op \in ExecutorOps -> 4
      [] OTHER -> 0

\* A logged call that is one of the four steps of Exec.
IsStep(e) == StepOf(e.op) # 0

\* C1: Exec runs Which, then the policy validation, then InstallPackage (and
\* the wait for the executable), then the executor, in that order, and stops
\* at the first step that fails: after a failed Which nothing runs; after a
\* failed policy step (unreadable policy file, or a deny) there is no
\* InstallPackage and no executor call; after a failed InstallPackage there is
\* no executor call. For a package, the policy step is skipped exactly when
\* AQUA_SECURITY_CONFIG is empty.
C1_StepOrder ==
    /\ \A k \in DOMAIN calls : (calls[k].op = "Which") <=> (k = 1)
    /\ LET steps == SelectSeq(calls, IsStep) IN
        \A k \in 1..(Len(steps) - 1) :
            StepOf(steps[k].op) <= StepOf(steps[k + 1].op)
    /\ (calls # <<>> /\ ~calls[1].ok)
            => Len(calls) = 1 /\ pc = "done" /\ result = Err("which", 0)
    /\ \A k \in Idx(PolicyOps) :
        ~calls[k].ok
            => /\ k = Len(calls)
               /\ pc = "done"
               /\ result = IF calls[k].op = "ReadSecurityConfig"
                           THEN Err("readSecurityConfig", 0)
                           ELSE Err("validateSecurity", 0)
    /\ \A k \in Idx({"InstallPackage"}) :
        ~calls[k].ok
            => /\ Idx(ExecutorOps) = {}
               /\ Idx({"Stat"}) = {}
               /\ pc = "done"
               /\ result = Err("installPackage", 0)
    /\ (findResult.hasPackage /\ pc # "validate")
            => /\ (Idx(PolicyOps) = {}) <=> (securityConfig = "")
               /\ securityConfig # ""
                    => /\ calls[2].op = "ReadSecurityConfig"
                       /\ calls[2].arg = securityConfig
                       /\ calls[2].ok => calls[3].op = "ValidateSecurity"
               /\ (securityConfig # "" /\ Idx({"InstallPackage"} \cup ExecutorOps) # {})
                    => calls[3].ok
    /\ (findResult.hasPackage /\ Idx(ExecutorOps) # {})
            => \E k \in Idx({"InstallPackage"}) : calls[k].ok

\* C1 witness: a package passed the policy check, was installed and executed.
C1_Witness ==
    /\ pc = "done"
    /\ result = Nil
    /\ \E k \in Idx({"ValidateSecurity"}) : calls[k].ok
    /\ \E k \in Idx({"InstallPackage"}) : calls[k].ok
    /\ Idx(ExecutorOps) # {}

\* An executor call that execCommand reports as "retried".
FailedToStart(e) ==
    \/ e.op = "ExecXSys" /\ ~e.ok
    \/ e.op = "Exec" /\ ~e.ok /\ e.code = -1 /\ ~e.ctx

\* The error execCommandWithRetry returns right after an executor call that
\* is not retried.
FinalErr(e) == IF e.ok THEN Nil ELSE Err("ecerror", e.code)

\* At most 10 executor calls; a call is followed by another one only when it
\* failed to start, and then after a wait that slept; every other outcome is
\* returned at once.
RetryDiscipline ==
    /\ Cardinality(Idx(ExecutorOps)) <= 10
    /\ \A k \in Idx(ExecutorOps) :
        IF FailedToStart(calls[k])
        THEN k < Len(calls)
                => /\ calls[k + 1].op = "wait"
                   /\ (k + 1 < Len(calls))
                        => calls[k + 1].ok /\ calls[k + 2].op \in ExecutorOps
        ELSE k = Len(calls) /\ pc = "done" /\ result = FinalErr(calls[k])

TenFailedAttempts ==
    /\ Cardinality(Idx(ExecutorOps)) = 10
    /\ \A k \in Idx(ExecutorOps) : FailedToStart(calls[k])

\* C2 as stated: at most 10 executor calls, a repeat only after a failed
\* start and a wait, every other outcome returned at once, and after 10
\* failed attempts Exec returns errFailedToStartProcess.
C2_Original ==
    /\ RetryDiscipline
    /\ (pc = "done" /\ TenFailedAttempts) => result = errFailedToStartProcess

\* C2 amended: as C2, but after the 10th failed attempt the loop still waits,
\* and it returns errFailedToStartProcess only if that wait is not cut short
\* by a cancelled context; otherwise it returns the context's error.
C2_RetryAtMostTen ==
    /\ RetryDiscipline
    /\ (pc = "done" /\ TenFailedAttempts)
            => result = IF calls[Len(calls)].ok
                        THEN errFailedToStartProcess
                        ELSE Err("ctx", 0)
    /\ result = errFailedToStartProcess
            => TenFailedAttempts /\ calls[Len(calls)].op = "wait"

\* C2 witness: ten attempts failed to start and Exec gave up.
C2_Witness ==
    /\ pc = "done"
    /\ TenFailedAttempts
    /\ result = errFailedToStartProcess

\* C3: a spawned child that exits with a code other than -1 is not run again
\* and Exec returns an error carrying exactly that code; an executor call
\* that returns no error makes Exec return nil.
C3_ExitCodePreserved ==
    \A k \in Idx(ExecutorOps) :
        /\ (calls[k].op = "Exec" /\ calls[k].code # -1)
                => /\ \A l \in Idx(ExecutorOps) : l <= k
                   /\ pc = "done"
                   /\ calls[k].ok => result = Nil
                   /\ ~calls[k].ok => result = Err("ecerror", calls[k].code)
        /\ calls[k].ok => (pc = "done" /\ result = Nil /\ k = Len(calls))

\* C3 witness: the child exited with code 2 on the third attempt.
C3_Witness ==
    /\ pc = "done"
    /\ result = Err("ecerror", 2)
    /\ Cardinality(Idx(ExecutorOps)) = 3

\* C4: after InstallPackage succeeded exe_path is checked at most 10 times;
\* a failed check is followed by a wait and the next check only by a wait
\* that slept; after a successful check there is no further check and no
\* wait of the poll loop.
C4_PollAtMostTen ==
    /\ Cardinality(Idx({"Stat"})) <= 10
    /\ \A k \in Idx({"InstallPackage"}) :
        (calls[k].ok /\ k < Len(calls)) => calls[k + 1].op = "Stat"
    /\ \A k \in Idx({"Stat"}) :
        /\ calls[k - 1].op = "InstallPackage" \/ calls[k - 1].op = "wait"
        /\ calls[k - 1].ok
        /\ IF calls[k].ok
           THEN \A l \in DOMAIN calls :
                    l > k => /\ calls[l].op # "Stat"
                             /\ calls[l].op = "wait"
                                    => calls[l - 1].op \in ExecutorOps
           ELSE /\ k = Len(calls) => pc = "pollWait"
                /\ k < Len(calls) => calls[k + 1].op = "wait"

\* C4 witness: nine checks failed and the tenth found the executable.
C4_Witness ==
    /\ Cardinality(Idx({"Stat"})) = 10
    /\ \E k \in Idx({"Stat"}) : calls[k].ok
    /\ pc = "execCommand"

\* C5: when Which returns no package, Exec makes no policy call, no checksum
\* file call and no InstallPackage call: everything after Which is the
\* executor, called with the ExePath Which returned, and its retry waits;
\* the only errors are those of executing the command.
C5_Passthrough ==
    (calls # <<>> /\ calls[1].ok /\ ~findResult.hasPackage)
        => /\ pc \in {"execCommand", "execWait", "done"}
           /\ \A k \in DOMAIN calls :
                k > 1 => /\ calls[k].op \in ExecutorOps \cup {"wait"}
                         /\ calls[k].op \in ExecutorOps
                                => calls[k].arg = calls[1].arg
           /\ (Len(calls) > 1) => calls[2].op \in ExecutorOps
           /\ result.kind \in {"none", "nil", "ecerror", "ctx",
                               "errFailedToStartProcess"}
           /\ (pc = "done") => Idx(ExecutorOps) # {}

\* C5 witness: a passthrough command was executed and exited with 0, with a
\* policy file configured.
C5_Witness ==
    /\ pc = "done"
    /\ calls[1].ok
    /\ ~findResult.hasPackage
    /\ securityConfig # ""
    /\ result = Nil

\* C6: once the context is cancelled no wait sleeps; a wait that returned the
\* context's error ends Exec with that error, with no further Stat and no
\* further executor call; a spawn that reports -1 under a cancelled context
\* is not retried; and after the cancellation each loop runs at most the
\* pass it was in.
C6_CancelStopsLoops ==
    /\ \A k \in Idx({"wait"}) :
        /\ calls[k].ctx <=> ~calls[k].ok
        /\ ~calls[k].ok
                => /\ pc = "done"
                   /\ result = Err("ctx", 0)
                   /\ \A l \in DOMAIN calls :
                        l > k => calls[l].op = "UpdateFile"
    /\ \A k \in Idx({"Exec"}) :
        (calls[k].ctx /\ ~calls[k].ok /\ calls[k].code = -1)
            => /\ k = Len(calls)
               /\ pc = "done"
               /\ result = Err("ecerror", -1)
    /\ Cardinality({k \in Idx({"Stat"}) : calls[k].ctx}) <= 1
    /\ Cardinality({k \in Idx(ExecutorOps) : calls[k].ctx}) <= 1

\* C6 witness: the context was cancelled while install was polling, after
\* three failed checks.
C6_Witness ==
    /\ pc = "done"
    /\ result = Err("ctx", 0)
    /\ Cardinality(Idx({"Stat"})) = 3
    /\ Idx(ExecutorOps) = {}

\* C23: a command whose child process was actually started is never
\* executed a second time by the exec retry loop: a retry happens only for
\* an attempt in which the process failed to start, never for a child that
\* ran and then ended (one terminated by a signal also reports exit
\* code -1).
C23_StartedChildNotRerun ==
    childRuns <= 1

\* C24: if exe_path is still missing or not owner-executable after the 10th
\* poll, install nevertheless returns nil and Exec goes on to execute
\* exe_path: exhausting the lazy-install poll is not reported as an error.
C24_PollExhaustedIsNil ==
    LET stats == Idx({"Stat"})
        last == CHOOSE k \in stats : \A l \in stats : l <= k
    IN  (/\ Cardinality(stats) = 10
         /\ \A k \in stats : ~calls[k].ok
         /\ last < Len(calls)
         /\ calls[last + 1].op = "wait" /\ calls[last + 1].ok)
        => /\ pc \in {"execCommand", "execWait", "done"}
           /\ result.kind \notin {"exeNotFound", "installPackage", "ctx"}
                \/ Idx(ExecutorOps) # {}
           /\ pc = "done" => Idx(ExecutorOps) # {}
           /\ \A k \in Idx(ExecutorOps) :
                /\ k > last + 1
                /\ calls[k].arg = findResult.exePath
           /\ \A k \in DOMAIN calls :
                (k > last + 1 /\ calls[k].op \notin ExecutorOps)
                    => calls[k].op \in {"UpdateFile", "wait"}

\* The tenth check failed as the nine before, and the command was executed
\* and ended with exit code 0.
C24_Witness ==
    /\ pc = "done"
    /\ result = Nil
    /\ Cardinality(Idx({"Stat"})) = 10
    /\ \A k \in Idx({"Stat"}) : ~calls[k].ok
    /\ \E k \in Idx(ExecutorOps) : calls[k].ok

\* install has returned.
InstallReturned ==
    \/ pc \in {"execCommand", "execWait"}
    \/ pc = "done" /\ Idx({"InstallPackage"}) # {}

\* C25: when checksums are enabled for the config, install reads the
\* checksum file before calling InstallPackage and rewrites it (UpdateFile)
\* exactly once on every return path after a successful read, also when
\* InstallPackage fails or the wait is cancelled; a failure of UpdateFile
\* never changes install's result. When checksums are disabled the checksum
\* file is neither read nor written and InstallPackage receives no checksum
\* set.
C25_ChecksumFile ==
    LET reads == {k \in Idx({"ReadFile"}) : calls[k].ok}
        upds == Idx({"UpdateFile"})
    IN  /\ Cardinality(Idx({"ReadFile"})) <= 1
        /\ Cardinality(upds) <= 1
        /\ \A k \in Idx({"InstallPackage"}) :
            IF findResult.checksumEnabled
            THEN /\ calls[k].arg = "checksums"
                 /\ \E l \in reads : l < k
            ELSE calls[k].arg = "nil"
        /\ ~findResult.checksumEnabled => Idx(ChecksumOps) = {}
        /\ (Idx({"InstallPackage"}) = {} \/ reads = {}) => upds = {}
        /\ (InstallReturned /\ reads # {}) => Cardinality(upds) = 1
        /\ \A k \in upds :
            /\ InstallReturned
            /\ \A l \in DOMAIN calls :
                /\ (l < k) => calls[l].op \notin ExecutorOps
                /\ (l > k) => calls[l].op \in ExecutorOps \cup {"wait"}
            /\ calls[k - 1].op \in {"InstallPackage", "Stat", "wait"}
            /\ (calls[k - 1].op = "InstallPackage")
                => /\ ~calls[k - 1].ok
                   /\ pc = "done"
                   /\ result = Err("installPackage", 0)
            /\ (calls[k - 1].op = "wait" /\ ~calls[k - 1].ok)
                => /\ pc = "done"
                   /\ result = Err("ctx", 0)
            /\ (calls[k - 1].ok /\ pc = "done") => Idx(ExecutorOps) # {}
            /\ result.kind # "updateChecksum"

\* InstallPackage failed with checksums enabled; the checksum file was
\* rewritten, the rewrite failed, and Exec returned InstallPackage's error.
C25_Witness ==
    /\ pc = "done"
    /\ findResult.checksumEnabled
    /\ result = Err("installPackage", 0)
    /\ \E k \in Idx({"UpdateFile"}) : ~calls[k].ok /\ k = Len(calls)

\* The wait of the poll loop was cancelled with checksums enabled, and the
\* checksum file was rewritten.
C25_WitnessCancelled ==
    /\ pc = "done"
    /\ findResult.checksumEnabled
    /\ result = Err("ctx", 0)
    /\ \E k \in Idx({"UpdateFile"}) : calls[k - 1].op = "wait"

(***************************************************************************)
(* Downloaders: pkgDownloader.downloadFromGitHubRelease and                *)
(* registryDownloader.GetGitHubContentFile                                 *)
(***************************************************************************)

\* Longest list of assets a release holds in the model.
MaxAssets == 3

AssetNames == {"tool.tar.gz", "registry.yaml"}
AssetIDs == {1, 2}
\* Bodies the servers can send.
Bodies == {"foo", "bar"}
RedirectURLs == {"https://objects.githubusercontent.com/asset"}

\* release.Assets: lists of (name, id) of length 0..MaxAssets
AssetLists ==
    UNION {[1..n -> [name : AssetNames, id : AssetIDs]] : n \in 0..MaxAssets}

\* One logged call to the HTTP or GitHub client: the operation, its
\* argument (a URL, or the call's string arguments joined by spaces), the
\* asset id (DownloadReleaseAsset only), whether it returned without error
\* and the body or content it returned.
DEv(op, arg, id, ok, body) ==
    [op |-> op, arg |-> arg, id |-> id, ok |-> ok, body |-> body]

\* "https://github.com/"+owner+"/"+repoName+"/releases/download/"+version+"/"+assetName
ReleaseURL(in) ==
    "https://github.com/" \o in.owner \o "/" \o in.repo
        \o "/releases/download/" \o in.version \o "/" \o in.name

\* "https://raw.githubusercontent.com/"+repoOwner+"/"+repoName+"/"+ref+"/"+path
RawURL(in) ==
    "https://raw.githubusercontent.com/" \o in.owner \o "/" \o in.repo
        \o "/" \o in.version \o "/" \o in.name

\* Mutant: the last asset of that name wins.
RECURSIVE getAssetIDFromAssetsLast(_, _)
getAssetIDFromAssetsLast(assets, assetName) ==
    IF assets = <<>> THEN [id |-> 0, ok |-> FALSE]
    ELSE LET rest == getAssetIDFromAssetsLast(Tail(assets), assetName) IN
         IF rest.ok THEN rest
         ELSE IF Head(assets).name = assetName
              THEN [id |-> Head(assets).id, ok |-> TRUE]
              ELSE rest

\* getAssetIDFromAssets: the id of the first asset whose name is assetName.
RECURSIVE getAssetIDFromAssets(_, _)
getAssetIDFromAssets(assets, assetName) ==
    IF assets = <<>> THEN [id |-> 0, ok |-> FALSE]
    ELSE IF Head(assets).name = assetName
         THEN [id |-> Head(assets).id, ok |-> TRUE]
         ELSE getAssetIDFromAssets(Tail(assets), assetName)

\* A caller invokes one of the two functions.
DlInit ==
    /\ dIn \in [fn : {"downloadFromGitHubRelease", "GetGitHubContentFile"},
                github : BOOLEAN,
                owner : {"aquaproj"}, repo : {"aqua-registry"},
                version : {"v2.16.0"}, name : AssetNames]
    /\ dpc = "http"
    /\ dClose = FALSE
    /\ dAssets = <<>>
    /\ dAssetID = 0
    /\ dRedirect = ""
    /\ dcalls = <<>>
    /\ dret = [body |-> "", err |-> "none"]

\* The function returns (body, err) after the calls c; GetGitHubContentFile's
\* deferred body.Close() runs first.
DlReturn(c, close, body, err) ==
    /\ dcalls' = IF close THEN Append(c, DEv("Close", "", 0, TRUE, "")) ELSE c
    /\ dret' = [body |-> body, err |-> err]
    /\ dpc' = "done"

\* downloadFromGitHubRelease up to the check of downloader.github: the
\* anonymous download; a failed download may still hand back a body, which
\* is closed.
relAnonymous ==
    /\ dIn.fn = "downloadFromGitHubRelease"
    /\ dpc = "http"
    /\ \E ok \in BOOLEAN, b \in Bodies \cup {""} :
        LET c == Append(dcalls, DEv("http.Download", ReleaseURL(dIn), 0, ok, b))
            closed == IF b # "" THEN Append(c, DEv("Close", "", 0, TRUE, ""))
                      ELSE c
        IN  /\ ok => b # ""
            /\ IF ok THEN DlReturn(c, FALSE, b, "nil")
               ELSE IF ~dIn.github
               THEN DlReturn(closed, FALSE, "", "errGitHubTokenIsRequired")
               ELSE /\ dcalls' = closed
                    /\ dpc' = "GetReleaseByTag"
                    /\ UNCHANGED dret
    /\ UNCHANGED <<dIn, dClose, dAssets, dAssetID, dRedirect>>
    /\ UNCHANGED <<execVars, linkVars, moreVars>>

\* GetReleaseByTag and getAssetIDFromAssets
relGetReleaseByTag ==
    /\ dIn.fn = "downloadFromGitHubRelease"
    /\ dpc = "GetReleaseByTag"
    /\ \E ok \in BOOLEAN, assets \in AssetLists :
        LET c == Append(dcalls,
                        DEv("GetReleaseByTag",
                            dIn.owner \o " " \o dIn.repo \o " " \o dIn.version,
                            0, ok, ""))
            found == getAssetIDFromAssets(assets, dIn.name)
        IN  IF ~ok
            THEN /\ assets = <<>>
                 /\ DlReturn(c, FALSE, "", "get the GitHub Release by Tag")
                 /\ UNCHANGED <<dAssetID, dAssets>>
            ELSE /\ dAssets' = assets
                 /\ IF ~found.ok
                    THEN /\ DlReturn(c, FALSE, "", "the asset isn't found")
                         /\ UNCHANGED dAssetID
                    ELSE /\ dcalls' = c
                         /\ dAssetID' = found.id
                         /\ dpc' = "DownloadReleaseAsset"
                         /\ UNCHANGED dret
    /\ UNCHANGED <<dIn, dClose, dRedirect>>
    /\ UNCHANGED <<execVars, linkVars, moreVars>>

\* DownloadReleaseAsset: an error, a body, or no body and a redirect URL.
relDownloadReleaseAsset ==
    /\ dpc = "DownloadReleaseAsset"
    /\ \E ok \in BOOLEAN, b \in Bodies \cup {""}, u \in RedirectURLs :
        LET c == Append(dcalls,
                        DEv("DownloadReleaseAsset",
                            dIn.owner \o " " \o dIn.repo, dAssetID, ok, b))
        IN  IF ~ok
            THEN /\ b = ""
                 /\ DlReturn(c, FALSE, "", "download the release asset")
                 /\ UNCHANGED dRedirect
            ELSE IF b # ""
            THEN /\ DlReturn(c, FALSE, b, "nil")
                 /\ UNCHANGED dRedirect
            ELSE /\ dcalls' = c
                 /\ dRedirect' = u
                 /\ dpc' = "redirect"
                 /\ UNCHANGED dret
    /\ UNCHANGED <<dIn, dClose, dAssets, dAssetID>>
    /\ UNCHANGED <<execVars, linkVars, moreVars>>

\* b, err = downloader.http.Download(ctx, redirectURL)
relRedirect ==
    /\ dpc = "redirect"
    /\ \E ok \in BOOLEAN, b \in Bodies \cup {""} :
        LET c == Append(dcalls, DEv("http.Download", dRedirect, 0, ok, b))
            closed == IF b # "" THEN Append(c, DEv("Close", "", 0, TRUE, ""))
                      ELSE c
        IN  /\ ok => b # ""
            /\ IF ok THEN DlReturn(c, FALSE, b, "nil")
               ELSE DlReturn(closed, FALSE, "", "download asset from redirect URL")
    /\ UNCHANGED <<dIn, dClose, dAssets, dAssetID, dRedirect>>
    /\ UNCHANGED <<execVars, linkVars, moreVars>>

\* Mutant: the nil check of downloader.github is missing.
contentFallbackNoCheck(github) == "GetContents"

\* What GetGitHubContentFile does once the anonymous attempt has failed
\* (lines 39-41): without a GitHub client it gives up.
contentFallback(github) ==
    IF github THEN "GetContents" ELSE "errGitHubTokenIsRequired"

\* GetGitHubContentFile up to the check of downloader.github: the download
\* from raw.githubusercontent.com and io.ReadAll of its body; a body that
\* was handed back is closed when the function returns.
contHTTP ==
    /\ dIn.fn = "GetGitHubContentFile"
    /\ dpc = "http"
    /\ \E ok \in BOOLEAN, b \in Bodies \cup {""}, readOk \in BOOLEAN :
        LET c1 == Append(dcalls, DEv("http.Download", RawURL(dIn), 0, ok, b))
            c == IF ok THEN Append(c1, DEv("io.ReadAll", "", 0, readOk, b))
                 ELSE c1
            close == (b # "")
        IN  /\ ok => b # ""
            /\ ~ok => readOk
            /\ dClose' = close
            /\ IF ok /\ readOk THEN DlReturn(c, close, b, "nil")
               ELSE IF contentFallback(dIn.github) = "GetContents"
               THEN /\ dcalls' = c
                    /\ dpc' = "GetContents"
                    /\ UNCHANGED dret
               ELSE DlReturn(c, close, "", contentFallback(dIn.github))
    /\ UNCHANGED <<dIn, dAssets, dAssetID, dRedirect>>
    /\ UNCHANGED <<execVars, linkVars, moreVars>>

\* downloader.github.GetContents(ctx, repoOwner, repoName, path, {Ref: ref})
\* and file.GetContent()
contGetContents ==
    /\ dIn.fn = "GetGitHubContentFile"
    /\ dpc = "GetContents"
    /\ \E ok \in BOOLEAN, content \in Bodies \cup {""}, decodeOk \in BOOLEAN :
        LET c1 == Append(dcalls,
                         DEv("GetContents",
                             dIn.owner \o " " \o dIn.repo \o " " \o dIn.name
                                 \o " " \o dIn.version,
                             0, ok, content))
            c2 == Append(c1, DEv("GetContent", "", 0, decodeOk, content))
        IN  IF ~ok
            THEN /\ content = ""
                 /\ decodeOk
                 /\ DlReturn(c1, dClose, "",
                             "get the registry configuration file by Get GitHub Content API")
            ELSE IF content = ""
            THEN /\ decodeOk
                 /\ DlReturn(c1, dClose, "", "errGitHubContentMustBeFile")
            ELSE IF ~decodeOk
            THEN DlReturn(c2, dClose, "", "get the registry configuration content")
            ELSE DlReturn(c2, dClose, content, "nil")
    /\ UNCHANGED <<dIn, dClose, dAssets, dAssetID, dRedirect>>
    /\ UNCHANGED <<execVars, linkVars, moreVars>>

DlNext ==
    \/ relAnonymous
    \/ relGetReleaseByTag
    \/ relDownloadReleaseAsset
    \/ relRedirect
    \/ contHTTP
    \/ contGetContents

\* One of the download functions is called; the exec controller stays idle.
InitDownload == DlInit /\ ExecIdle /\ LinkIdle /\ MoreIdle

SpecDownload == InitDownload /\ [][DlNext]_vars

(***************************************************************************)
(* Properties of the downloaders                                           *)
(***************************************************************************)

\* Positions of the download log holding the operation op.
DIdx(op) == {k \in DOMAIN dcalls : dcalls[k].op = op}

\* C7: downloadFromGitHubRelease first GETs
\* https://github.com/<owner>/<repo>/releases/download/<version>/<asset> and
\* returns that body without any GitHub API call when the GET succeeds; only
\* when it fails does it go, once, through GetReleaseByTag, the id of the
\* first asset with exactly that name, and DownloadReleaseAsset, returning the
\* API's body if there is one and else the body fetched from the redirect
\* URL. Without a GitHub client the fallback fails with
\* errGitHubTokenIsRequired, and a name that is not in the release fails
\* without a DownloadReleaseAsset call.
C7_ReleaseFallback ==
    (dIn.fn = "downloadFromGitHubRelease" /\ dcalls # <<>>) =>
        /\ dcalls[1].op = "http.Download"
        /\ dcalls[1].arg = "https://github.com/" \o dIn.owner \o "/" \o dIn.repo
                            \o "/releases/download/" \o dIn.version
                            \o "/" \o dIn.name
        /\ dcalls[1].ok
                => /\ Len(dcalls) = 1
                   /\ dpc = "done"
                   /\ dret = [body |-> dcalls[1].body, err |-> "nil"]
        /\ Cardinality(DIdx("GetReleaseByTag")) <= 1
        /\ Cardinality(DIdx("DownloadReleaseAsset")) <= 1
        /\ Cardinality(DIdx("http.Download")) <= 2
        /\ (DIdx("GetReleaseByTag") # {}) => (~dcalls[1].ok /\ dIn.github)
        /\ (~dcalls[1].ok /\ ~dIn.github)
                => /\ dpc = "done"
                   /\ dret = [body |-> "", err |-> "errGitHubTokenIsRequired"]
                   /\ DIdx("GetReleaseByTag") = {}
                   /\ DIdx("DownloadReleaseAsset") = {}
        /\ \A k \in DIdx("GetReleaseByTag") :
            /\ dcalls[k].arg = dIn.owner \o " " \o dIn.repo \o " " \o dIn.version
            /\ ~dcalls[k].ok
                => /\ dpc = "done" /\ dret.body = "" /\ dret.err # "nil"
                   /\ DIdx("DownloadReleaseAsset") = {}
            /\ (dcalls[k].ok /\ \A a \in DOMAIN dAssets : dAssets[a].name # dIn.name)
                => /\ dpc = "done"
                   /\ dret = [body |-> "", err |-> "the asset isn't found"]
                   /\ DIdx("DownloadReleaseAsset") = {}
                   /\ k = Len(dcalls)
        /\ \A k \in DIdx("DownloadReleaseAsset") :
            /\ dcalls[k - 1].op = "GetReleaseByTag" /\ dcalls[k - 1].ok
            /\ \E a \in DOMAIN dAssets :
                /\ dAssets[a].name = dIn.name
                /\ dAssets[a].id = dcalls[k].id
                /\ \A b \in 1..(a - 1) : dAssets[b].name # dIn.name
            /\ ~dcalls[k].ok
                => dpc = "done" /\ dret.body = "" /\ dret.err # "nil"
            /\ (dcalls[k].ok /\ dcalls[k].body # "")
                => /\ k = Len(dcalls)
                   /\ dpc = "done"
                   /\ dret = [body |-> dcalls[k].body, err |-> "nil"]
            /\ (dcalls[k].ok /\ dcalls[k].body = "" /\ k < Len(dcalls))
                => /\ dcalls[k + 1].op = "http.Download"
                   /\ dcalls[k + 1].arg = dRedirect
                   /\ dpc = "done"
                   /\ IF dcalls[k + 1].ok
                      THEN dret = [body |-> dcalls[k + 1].body, err |-> "nil"]
                      ELSE dret = [body |-> "",
                                   err |-> "download asset from redirect URL"]
        /\ \A k \in DIdx("http.Download") :
            k > 1 => dcalls[k - 1].op = "DownloadReleaseAsset"

\* C7 witness: the anonymous GET failed, the release lists the asset after
\* another one, and the body came from the redirect URL.
C7_Witness ==
    /\ dIn.fn = "downloadFromGitHubRelease"
    /\ dpc = "done"
    /\ dret.err = "nil"
    /\ ~dcalls[1].ok
    /\ Len(dAssets) >= 2
    /\ dAssets[1].name # dIn.name
    /\ dcalls[Len(dcalls)].op = "http.Download"

\* The anonymous attempt of GetGitHubContentFile failed: the download, or
\* the read of its body.
ContentHTTPFailed ==
    \/ ~dcalls[1].ok
    \/ Len(dcalls) >= 2 /\ dcalls[2].op = "io.ReadAll" /\ ~dcalls[2].ok

MaxLinkCalls == 2

\* filepath.Join(is.rootDir, "bin", file.Name)
LinkPaths == {"/root/.aqua/bin/gh", "/root/.aqua/bin/jq"}
\* Link targets: the proxy, and the target of a stale link.
LinkDests == {"../aqua-proxy", "../aqua-proxy.old"}

Entries ==
    {Entry(k, "") : k \in {"absent", "dir", "pipe", "regular", "socket"}}
        \cup {Entry("symlink", t) : t \in LinkDests}

\* The callers of the sequential specification.
SeqProcs == {"p1"}

FsOp(op, ok) == [op |-> op, ok |-> ok]

LinkInit ==
    /\ fs \in [LinkPaths -> Entries]
    /\ lpc = [p \in Procs |-> "idle"]
    /\ largs = [p \in Procs |-> NoArgs]
    /\ lmode = [p \in Procs |-> ""]
    /\ lops = [p \in Procs |-> <<>>]
    /\ lret = [p \in Procs |-> "none"]
    /\ lpre = [p \in Procs |-> <<>>]
    /\ lprev = [p \in Procs |-> NoPrev]
    /\ lcount = 0
    /\ lfault = FALSE

\* createLink returns err to caller p.
LinkReturn(p, err) ==
    /\ lpc' = [lpc EXCEPT ![p] = "done"]
    /\ lret' = [lret EXCEPT ![p] = err]

\* Caller p calls createLink(linkPath, linkDest).
createLinkCall(p) ==
    /\ lpc[p] \in {"idle", "done"}
    /\ lcount < MaxLinkCalls
    /\ \E path \in LinkPaths, dest \in LinkDests :
        largs' = [largs EXCEPT ![p] = [linkPath |-> path, linkDest |-> dest]]
    /\ lprev' = [lprev EXCEPT ![p] =
                    IF lpc[p] = "done"
                    THEN [linkPath |-> largs[p].linkPath,
                          linkDest |-> largs[p].linkDest, ret |-> lret[p]]
                    ELSE NoPrev]
    /\ lpc' = [lpc EXCEPT ![p] = "Lstat"]
    /\ lmode' = [lmode EXCEPT ![p] = ""]
    /\ lops' = [lops EXCEPT ![p] = <<>>]
    /\ lret' = [lret EXCEPT ![p] = "none"]
    /\ lpre' = [lpre EXCEPT ![p] = fs]
    /\ lcount' = lcount + 1
    /\ UNCHANGED <<fs, lfault>>
    /\ UNCHANGED <<execVars, dlVars, moreVars>>

\* Mutant: the named-pipe case is missing, so a pipe, which has none of the
\* directory and symlink bits, is handled like the file it replaces.
createLinkCaseNoPipe(kind) ==
    CASE kind = "dir" -> "errDir"
      [] kind \in {"regular", "pipe"} -> "regular"
      [] kind = "symlink" -> "symlink"
      [] OTHER -> "errMode"

\* The switch on fileInfo.Mode() in createLink.
createLinkCase(kind) ==
    CASE kind = "dir" -> "errDir"
      [] kind = "pipe" -> "errPipe"
      [] kind = "regular" -> "regular"
      [] kind = "symlink" -> "symlink"
      [] OTHER -> "errMode"

\* is.linker.Lstat(linkPath) and the switch on the mode; Lstat fails when
\* nothing is at linkPath.
createLinkLstat(p) ==
    /\ lpc[p] = "Lstat"
    /\ LET e == fs[largs[p].linkPath]
           c == createLinkCase(e.kind)
       IN  IF e.kind = "absent"
           THEN /\ lops' = [lops EXCEPT ![p] = Append(@, FsOp("Lstat", FALSE))]
                /\ lpc' = [lpc EXCEPT ![p] = "Symlink"]
                /\ UNCHANGED <<lmode, lret>>
           ELSE /\ lops' = [lops EXCEPT ![p] = Append(@, FsOp("Lstat", TRUE))]
                /\ lmode' = [lmode EXCEPT ![p] = e.kind]
                /\ IF c = "regular"
                   THEN lpc' = [lpc EXCEPT ![p] = "Remove"] /\ UNCHANGED lret
                   ELSE IF c = "symlink"
                   THEN lpc' = [lpc EXCEPT ![p] = "Readlink"] /\ UNCHANGED lret
                   ELSE LinkReturn(p, c)
    /\ UNCHANGED <<fs, largs, lpre, lprev, lcount, lfault>>
    /\ UNCHANGED <<execVars, dlVars, moreVars>>

\* is.fs.Remove(linkPath), in createLink (a regular file) or recreateLink
\* (a stale link); it fails when nothing is there, or on an I/O error.
createLinkRemove(p) ==
    /\ lpc[p] = "Remove"
    /\ \E ioOk \in BOOLEAN :
        LET there == fs[largs[p].linkPath].kind # "absent"
            ok == ioOk /\ there
        IN
        /\ lfault' = (lfault \/ (there /\ ~ioOk))
        /\ lops' = [lops EXCEPT ![p] = Append(@, FsOp("Remove", ok))]
        /\ IF ok
           THEN /\ fs' = [fs EXCEPT ![largs[p].linkPath] = Absent]
                /\ lpc' = [lpc EXCEPT ![p] = "Symlink"]
                /\ UNCHANGED lret
           ELSE /\ LinkReturn(p, IF lmode[p] = "symlink"
                                 THEN "remove a symbolic link"
                                 ELSE "remove a file to create a symbolic link")
                /\ UNCHANGED fs
    /\ UNCHANGED <<largs, lmode, lpre, lprev, lcount>>
    /\ UNCHANGED <<execVars, dlVars, moreVars>>

\* is.linker.Symlink(linkDest, linkPath); it fails when something is at
\* linkPath, or on an I/O error.
createLinkSymlink(p) ==
    /\ lpc[p] = "Symlink"
    /\ \E ioOk \in BOOLEAN :
        LET free == fs[largs[p].linkPath].kind = "absent"
            ok == ioOk /\ free
        IN
        /\ lfault' = (lfault \/ (free /\ ~ioOk))
        /\ lops' = [lops EXCEPT ![p] = Append(@, FsOp("Symlink", ok))]
        /\ IF ok
           THEN /\ fs' = [fs EXCEPT ![largs[p].linkPath] =
                                        Entry("symlink", largs[p].linkDest)]
                /\ LinkReturn(p, "nil")
           ELSE /\ LinkReturn(p, "create a symbolic link")
                /\ UNCHANGED fs
    /\ UNCHANGED <<largs, lmode, lpre, lprev, lcount>>
    /\ UNCHANGED <<execVars, dlVars, moreVars>>

\* Mutant: a link is kept whatever its target.
recreateNeededNever(linkDest, lnDest) == FALSE

\* Mutant: the link is recreated whether or not its target differs.
recreateNeededAlways(linkDest, lnDest) == TRUE

\* recreateLink goes on to recreate the link unless linkDest == lnDest.
recreateNeeded(linkDest, lnDest) == linkDest # lnDest

\* recreateLink: is.linker.Readlink(linkPath) and the comparison with
\* linkDest; Readlink fails when linkPath is no symbolic link, or on an I/O
\* error.
recreateLinkReadlink(p) ==
    /\ lpc[p] = "Readlink"
    /\ \E ioOk \in BOOLEAN :
        LET e == fs[largs[p].linkPath]
            ok == ioOk /\ e.kind = "symlink"
        IN  /\ lfault' = (lfault \/ (e.kind = "symlink" /\ ~ioOk))
            /\ lops' = [lops EXCEPT ![p] = Append(@, FsOp("Readlink", ok))]
            /\ IF ~ok
               THEN LinkReturn(p, "read a symbolic link")
               ELSE IF recreateNeeded(largs[p].linkDest, e.target)
               THEN lpc' = [lpc EXCEPT ![p] = "Remove"] /\ UNCHANGED lret
               ELSE LinkReturn(p, "nil")
    /\ UNCHANGED <<fs, largs, lmode, lpre, lprev, lcount>>
    /\ UNCHANGED <<execVars, dlVars, moreVars>>

\* createLink is called by one caller at a time.
LinkNext ==
    \E p \in SeqProcs :
        \/ createLinkCall(p)
        \/ createLinkLstat(p)
        \/ createLinkRemove(p)
        \/ createLinkSymlink(p)
        \/ recreateLinkReadlink(p)

\* A file system with something or nothing at each path of <root>/bin; the
\* exec controller and the downloaders stay idle.
InitLink == LinkInit /\ ExecIdle /\ DlIdle /\ MoreIdle

SpecLink == InitLink /\ [][LinkNext]_vars

(***************************************************************************)
(* Properties of the link layout                                           *)
(***************************************************************************)

\* The operations caller p's current createLink call has made, in order.
LinkOps(p) == [k \in DOMAIN lops[p] |-> lops[p][k].op]

\* The current call of p has made no Remove and no Symlink and the file
\* system is as it was when the call began.
NoWrite(p) ==
    /\ \A k \in DOMAIN lops[p] : lops[p][k].op \notin {"Remove", "Symlink"}
    /\ fs = lpre[p]

\* C9: createLink(linkPath, linkDest) returns an error and performs no
\* Remove and no Symlink whenever linkPath already exists as a directory or
\* as a named pipe: the existing entry is left exactly as it was.
C9_ConflictLeftAlone ==
    \A p \in SeqProcs :
        (lpc[p] # "idle"
            /\ lpre[p][largs[p].linkPath].kind \in {"dir", "pipe"})
        => /\ NoWrite(p)
           /\ fs[largs[p].linkPath] = lpre[p][largs[p].linkPath]
           /\ lpc[p] \in {"Lstat", "done"}
           /\ lpc[p] = "done" => lret[p] \in {"errDir", "errPipe"}

\* A call on a named pipe has returned its error, after a call on a
\* directory returned its own.
C9_Witness ==
    /\ lpc["p1"] = "done"
    /\ lpre["p1"][largs["p1"].linkPath].kind = "pipe"
    /\ lret["p1"] = "errPipe"
    /\ lprev["p1"].ret = "errDir"
    /\ fs = lpre["p1"]

\* C10: whenever createLink(linkPath, linkDest) returns nil, linkPath is a
\* symbolic link whose target is linkDest: an absent path gets a new symlink
\* (Lstat, Symlink), a regular file is removed and then replaced (Lstat,
\* Remove, Symlink), a symlink with a different target is removed and
\* recreated (Lstat, Readlink, Remove, Symlink), and a symlink already
\* pointing to linkDest causes no file system write at all (Lstat,
\* Readlink), so that a second call with the same arguments after a nil
\* return is a no-op.  No other path is touched.
C10_NilMeansLinked ==
    \A p \in SeqProcs :
        LET path == largs[p].linkPath
            dest == largs[p].linkDest
        IN  /\ (lpc[p] = "done" /\ lret[p] = "nil")
               => /\ fs[path] = Entry("symlink", dest)
                  /\ \A q \in LinkPaths \ {path} : fs[q] = lpre[p][q]
                  /\ LET pre == lpre[p][path] IN
                     CASE pre.kind = "absent"
                            -> LinkOps(p) = <<"Lstat", "Symlink">>
                       [] pre.kind = "regular"
                            -> LinkOps(p) = <<"Lstat", "Remove", "Symlink">>
                       [] pre.kind = "symlink" /\ pre.target # dest
                            -> LinkOps(p) =
                                 <<"Lstat", "Readlink", "Remove", "Symlink">>
                       [] pre.kind = "symlink" /\ pre.target = dest
                            -> LinkOps(p) = <<"Lstat", "Readlink">>
                               /\ NoWrite(p)
                       [] OTHER -> FALSE
            /\ (lpc[p] # "idle" /\ lprev[p].ret = "nil"
                    /\ lprev[p].linkPath = path /\ lprev[p].linkDest = dest)
               => NoWrite(p)

\* A second call with the arguments of a call that returned nil has itself
\* returned nil after Lstat and Readlink only.
C10_Witness ==
    /\ lpc["p1"] = "done"
    /\ lret["p1"] = "nil"
    /\ lprev["p1"].ret = "nil"
    /\ lprev["p1"].linkPath = largs["p1"].linkPath
    /\ lprev["p1"].linkDest = largs["p1"].linkDest
    /\ LinkOps("p1") = <<"Lstat", "Readlink">>
    /\ fs[largs["p1"].linkPath] = Entry("symlink", largs["p1"].linkDest)

(***************************************************************************)
(* createLink called by concurrent processes                               *)
(***************************************************************************)

\* The processes run concurrently, one file system call at a time.
LinkParNext ==
    \E p \in Procs :
        \/ createLinkCall(p)
        \/ createLinkLstat(p)
        \/ createLinkRemove(p)
        \/ createLinkSymlink(p)
        \/ recreateLinkReadlink(p)

SpecLinkPar == InitLink /\ [][LinkParNext]_vars

\* What createLink is to replace: nothing, a regular file, or a symlink to a
\* stale target.
Replaceable(e, linkDest) ==
    \/ e.kind \in {"absent", "regular"}
    \/ e.kind = "symlink" /\ e.target # linkDest

MaxShimCalls == 3

RootDir == "/root/.aqua"
proxyName == "aqua-proxy"

isWindows(os) == os = "windows"

\* file.Name of the files of the packages.
FileNames == <<"gh", "jq">>

\* The files of the packages createLinks is called with, in order.
FileSeqs == {<<"gh">>, <<"jq">>, <<"gh", "jq">>}

\* filepath.Join(is.rootDir, "bin", name)
BinPath(name) == RootDir \o "/bin/" \o name

\* The name of the shim of a file: createLinks appends .exe on Windows.
ShimName(os, name) == IF isWindows(os) THEN name \o ".exe" ELSE name

\* A hard link to the file at path dest: a regular file sharing its inode.
HardlinkTo(dest) == Entry("regular", dest)

\* What is in <root>/bin before aqua's first run on it.
ShimEntries ==
    {Absent, Entry("dir", ""), Entry("regular", ""),
     Entry("symlink", "../" \o proxyName)}

ShimInit ==
    /\ goos \in {"linux", "darwin", "windows"}
    /\ fs \in [{BinPath(ShimName(goos, FileNames[k])) : k \in DOMAIN FileNames}
                -> ShimEntries]
    /\ hardlinkFile = FALSE
    /\ spc = "idle"
    /\ sfiles = <<>>
    /\ sfailed = FALSE
    /\ sret = "none"
    /\ scount = 0
    /\ lpc = [p \in Procs |-> "idle"]
    /\ largs = [p \in Procs |-> NoArgs]
    /\ lmode = [p \in Procs |-> ""]
    /\ lops = [p \in Procs |-> <<>>]
    /\ lret = [p \in Procs |-> "none"]
    /\ lpre = [p \in Procs |-> <<>>]
    /\ lprev = [p \in Procs |-> NoPrev]
    /\ lcount = 0
    /\ lfault = FALSE

\* is.linker.Hardlink(dest, path) succeeds when nothing is at path and no
\* I/O error occurs.
Hardlink(dest, path, ioOk) ==
    IF ioOk /\ fs[path].kind = "absent"
    THEN [fs EXCEPT ![path] = HardlinkTo(dest)]
    ELSE fs

\* createLinks is called with the files of some packages.
createLinksCall ==
    /\ spc = "idle"
    /\ scount < MaxShimCalls
    /\ scount' = scount + 1
    /\ sfiles' \in FileSeqs
    /\ sfailed' = FALSE
    /\ sret' = "none"
    /\ spc' = "createLinks"
    /\ UNCHANGED <<goos, hardlinkFile, linkVars>>
    /\ UNCHANGED shimOthers

\* One round of createLinks' loop, up to the call of createLink; on Windows
\* the whole round, createHardLink included.
createLinksFile ==
    /\ spc = "createLinks"
    /\ IF sfiles = <<>>
       THEN /\ spc' = "idle"
            /\ sret' = IF sfailed THEN "failed" ELSE "ok"
            /\ UNCHANGED <<sfiles, sfailed, linkVars>>
       ELSE IF isWindows(goos)
       THEN \E ioOk \in BOOLEAN :
            LET path == BinPath(Head(sfiles) \o ".exe")
                dest == RootDir \o "/" \o proxyName \o ".exe"
                fs2 == Hardlink(dest, path, ioOk)
            IN  /\ fs' = fs2
                /\ sfailed' = (sfailed \/ fs2 = fs)
                /\ sfiles' = Tail(sfiles)
                /\ UNCHANGED <<spc, sret, lpc, largs, lmode, lops, lret,
                               lpre, lprev, lcount, lfault>>
       ELSE /\ largs' = [largs EXCEPT !["p1"] =
                            [linkPath |-> BinPath(Head(sfiles)),
                             linkDest |-> "../" \o proxyName]]
            /\ lprev' = [lprev EXCEPT !["p1"] = NoPrev]
            /\ lpc' = [lpc EXCEPT !["p1"] = "Lstat"]
            /\ lmode' = [lmode EXCEPT !["p1"] = ""]
            /\ lops' = [lops EXCEPT !["p1"] = <<>>]
            /\ lret' = [lret EXCEPT !["p1"] = "none"]
            /\ lpre' = [lpre EXCEPT !["p1"] = fs]
            /\ lcount' = lcount + 1
            /\ spc' = "createLink"
            /\ UNCHANGED <<fs, lfault, sfiles, sfailed, sret>>
    /\ UNCHANGED <<goos, hardlinkFile, scount>>
    /\ UNCHANGED shimOthers

\* createLink has returned to createLinks.
createLinksNext ==
    /\ spc = "createLink"
    /\ lpc["p1"] = "done"
    /\ sfailed' = (sfailed \/ lret["p1"] # "nil")
    /\ sfiles' = Tail(sfiles)
    /\ spc' = "createLinks"
    /\ lpc' = [lpc EXCEPT !["p1"] = "idle"]
    /\ UNCHANGED <<fs, largs, lmode, lops, lret, lpre, lprev, lcount,
                   lfault>>
    /\ UNCHANGED <<goos, hardlinkFile, sret, scount>>
    /\ UNCHANGED shimOthers

\* afero.ReadDir(is.fs, binDir): the names of what is in <root>/bin, sorted.
ReadDir ==
    LET names == [k \in DOMAIN FileNames |-> ShimName(goos, FileNames[k])]
        present(n) == fs[BinPath(n)].kind # "absent"
    IN  SelectSeq(names, present)

\* replaceWithHardlinks returns err.
rhReturn(err) ==
    /\ spc' = "idle"
    /\ sret' = err
    /\ sfiles' = <<>>

\* Mutant: the sentinel is not looked at.
replaceWithHardlinksIgnoresFlag ==
    /\ spc = "idle"
    /\ scount < MaxShimCalls
    /\ scount' = scount + 1
    /\ \E existsOk \in BOOLEAN, readOk \in BOOLEAN :
        IF ~existsOk
        THEN rhReturn("check if a hardlink flag exists")
        ELSE IF ~readOk
        THEN rhReturn("read a bin dir")
        ELSE /\ sfiles' = ReadDir
             /\ spc' = "rhRemove"
             /\ sret' = "none"
    /\ UNCHANGED <<goos, hardlinkFile, sfailed, linkVars>>
    /\ UNCHANGED shimOthers

\* replaceWithHardlinks up to its loop: afero.Exists on <root>/hardlink, and
\* afero.ReadDir on <root>/bin.
replaceWithHardlinks ==
    /\ spc = "idle"
    /\ scount < MaxShimCalls
    /\ scount' = scount + 1
    /\ \E existsOk \in BOOLEAN, readOk \in BOOLEAN :
        IF ~existsOk
        THEN rhReturn("check if a hardlink flag exists")
        ELSE IF hardlinkFile
        THEN rhReturn("nil")
        ELSE IF ~readOk
        THEN rhReturn("read a bin dir")
        ELSE /\ sfiles' = ReadDir
             /\ spc' = "rhRemove"
             /\ sret' = "none"
    /\ UNCHANGED <<goos, hardlinkFile, sfailed, linkVars>>
    /\ UNCHANGED shimOthers

\* The head of replaceWithHardlinks' loop: is.fs.Remove(p) on the next entry
\* of <root>/bin, or is.fs.Create(hardlinkFile) after the last one.
rhRemove ==
    /\ spc = "rhRemove"
    /\ \E ioOk \in BOOLEAN :
        IF sfiles = <<>>
        THEN /\ hardlinkFile' = ioOk
             /\ rhReturn(IF ioOk THEN "nil" ELSE "create a hardlink flag")
             /\ UNCHANGED fs
        ELSE LET p == BinPath(Head(sfiles))
                 ok == ioOk /\ fs[p].kind # "absent"
             IN  /\ IF ok
                    THEN /\ fs' = [fs EXCEPT ![p] = Absent]
                         /\ spc' = "rhHardlink"
                         /\ UNCHANGED <<sret, sfiles>>
                    ELSE /\ rhReturn("remove a file to replace it with a hard link")
                         /\ UNCHANGED fs
                 /\ UNCHANGED hardlinkFile
    /\ UNCHANGED <<goos, sfailed, scount>>
    /\ UNCHANGED <<lpc, largs, lmode, lops, lret, lpre, lprev, lcount,
                   lfault>>
    /\ UNCHANGED shimOthers

\* is.linker.Hardlink(proxy, p) in replaceWithHardlinks' loop.
rhHardlink ==
    /\ spc = "rhHardlink"
    /\ \E ioOk \in BOOLEAN :
        LET p == BinPath(Head(sfiles))
            fs2 == Hardlink(RootDir \o "/" \o proxyName, p, ioOk)
        IN  /\ fs' = fs2
            /\ IF fs2 # fs
               THEN /\ sfiles' = Tail(sfiles)
                    /\ spc' = "rhRemove"
                    /\ UNCHANGED sret
               ELSE rhReturn("create a hard link")
    /\ UNCHANGED <<goos, hardlinkFile, sfailed, scount>>
    /\ UNCHANGED <<lpc, largs, lmode, lops, lret, lpre, lprev, lcount,
                   lfault>>
    /\ UNCHANGED shimOthers

\* createLinks and replaceWithHardlinks run one at a time; createLink is
\* called by createLinks.
ShimNext ==
    \/ createLinksCall
    \/ createLinksFile
    \/ createLinksNext
    \/ replaceWithHardlinks
    \/ rhRemove
    \/ rhHardlink
    \/ createLinkLstat("p1")
    \/ createLinkRemove("p1")
    \/ createLinkSymlink("p1")
    \/ recreateLinkReadlink("p1")

\* <root>/bin before the switch to hard links; the exec controller and the
\* downloaders stay idle.
InitShim ==
    ShimInit /\ ExecIdle /\ DlIdle /\ HTTPIdle /\ RegIdle /\ FindIdle

SpecShim == InitShim /\ [][ShimNext]_vars

\* C11: once the hardlink sentinel file <root>/hardlink exists, the shims
\* that createLinks creates in <root>/bin are hard links to the proxy on
\* every platform, and a shim that is a hard link is never turned back into
\* a symbolic link by a later createLinks run: between two calls, with the
\* sentinel present, nothing in <root>/bin is a symbolic link.
C11_HardlinksAfterSentinel ==
    (hardlinkFile /\ spc = "idle")
        => \A q \in DOMAIN fs : fs[q].kind # "symlink"

\* The errors of replaceWithHardlinks after it found no sentinel.
MigrationErrors ==
    {"read a bin dir", "remove a file to replace it with a hard link",
     "create a hard link", "create a hardlink flag"}

\* Every entry of <root>/bin is a hard link to <root>/aqua-proxy.
AllHardlinks ==
    \A q \in DOMAIN fs :
        fs[q].kind # "absent" => fs[q] = Entry("regular", "/root/.aqua/aqua-proxy")

\* A step that is a call of replaceWithHardlinks.
IsMigrationCall ==
    /\ spc = "idle"
    /\ scount' = scount + 1
    /\ spc' \in {"idle", "rhRemove"}

\* C28: replaceWithHardlinks is a one-time migration guarded by the
\* sentinel: if <root>/hardlink exists it changes nothing on the file
\* system; otherwise it replaces every entry of <root>/bin (remove, then
\* hard link to <root>/aqua-proxy) and creates the sentinel only after all
\* entries were replaced, so whenever it fails part-way the sentinel is
\* absent and the migration runs again next time.
C28_OneTimeMigration ==
    /\ [](/\ (spc = "idle" /\ sret \in MigrationErrors) => ~hardlinkFile
          /\ spc \in {"rhRemove", "rhHardlink"} => ~hardlinkFile)
    /\ [][/\ (IsMigrationCall /\ hardlinkFile)
                => /\ spc' = "idle"
                   /\ sret' \in {"nil", "check if a hardlink flag exists"}
                   /\ fs' = fs
                   /\ hardlinkFile'
          /\ (IsMigrationCall /\ ~hardlinkFile)
                => /\ spc' = "rhRemove"
                        \/ sret' \in {"check if a hardlink flag exists",
                                      "read a bin dir"}
                   /\ fs' = fs
                   /\ ~hardlinkFile'
          /\ (spc = "rhRemove" /\ spc' = "rhHardlink")
                => \E q \in DOMAIN fs :
                    /\ fs[q].kind # "absent"
                    /\ fs' = [fs EXCEPT ![q] = Absent]
          /\ (spc = "rhHardlink" /\ fs' # fs)
                => \E q \in DOMAIN fs :
                    /\ fs[q].kind = "absent"
                    /\ fs' = [fs EXCEPT ![q] =
                                Entry("regular", "/root/.aqua/aqua-proxy")]
          /\ (~hardlinkFile /\ hardlinkFile')
                => /\ spc = "rhRemove"
                   /\ AllHardlinks
                   /\ fs' = fs
                   /\ sret' = "nil"
          /\ hardlinkFile => hardlinkFile']_vars

\* The migration has replaced both entries of <root>/bin and created the
\* sentinel.
C28_Witness ==
    /\ spc = "idle"
    /\ sret = "nil"
    /\ hardlinkFile
    /\ AllHardlinks
    /\ \A q \in DOMAIN fs : fs[q].kind # "absent"

\* The migration failed at the second entry after replacing the first; the
\* sentinel is absent.
C28_WitnessPartWay ==
    /\ spc = "idle"
    /\ sret = "create a hard link"
    /\ ~hardlinkFile
    /\ \E q \in DOMAIN fs : fs[q] = Entry("regular", "/root/.aqua/aqua-proxy")
    /\ \E q \in DOMAIN fs : fs[q].kind = "absent"

(***************************************************************************)
(* Strings and paths: strings.Contains, strings.ReplaceAll and the lexical *)
(* path functions of path/filepath, computed on the characters.            *)
(***************************************************************************)

\* strings.Contains(s, sub)
Contains(s, sub) ==
    \E k \in 1..(Len(s) - Len(sub) + 1) : SubSeq(s, k, k + Len(sub) - 1) = sub

\* strings.HasPrefix(s, prefix)
HasPrefix(s, prefix) ==
    Len(s) >= Len(prefix) /\ SubSeq(s, 1, Len(prefix)) = prefix

\* strings.HasSuffix(s, suffix)
HasSuffix(s, suffix) ==
    Len(s) >= Len(suffix) /\ SubSeq(s, Len(s) - Len(suffix) + 1, Len(s)) = suffix

\* strings.Index(s, sub), counted from 1; 0 when sub is not in s.
Index(s, sub) ==
    IF Contains(s, sub)
    THEN CHOOSE k \in 1..(Len(s) - Len(sub) + 1) :
            /\ SubSeq(s, k, k + Len(sub) - 1) = sub
            /\ \A l \in 1..(k - 1) : SubSeq(s, l, l + Len(sub) - 1) # sub
    ELSE 0

\* strings.ReplaceAll(s, old, new), old non-empty.
RECURSIVE ReplaceAll(_, _, _)
ReplaceAll(s, old, new) ==
    LET k == Index(s, old) IN
    IF k = 0 THEN s
    ELSE SubSeq(s, 1, k - 1) \o new
            \o ReplaceAll(SubSeq(s, k + Len(old), Len(s)), old, new)

\* strings.Split(s, "/")
SplitSlash(s) ==
    LET slashes == {k \in 1..Len(s) : SubSeq(s, k, k) = "/"}
        nth(n) == IF n = 0 THEN 0
                  ELSE IF n > Cardinality(slashes) THEN Len(s) + 1
                  ELSE CHOOSE k \in slashes :
                        Cardinality({l \in slashes : l < k}) = n - 1
    IN  [n \in 1..(Cardinality(slashes) + 1) |->
            SubSeq(s, nth(n - 1) + 1, nth(n) - 1)]

\* strings.Join(elems, "/")
RECURSIVE JoinSlash(_)
JoinSlash(elems) ==
    IF elems = <<>> THEN ""
    ELSE IF Len(elems) = 1 THEN Head(elems)
    ELSE Head(elems) \o "/" \o JoinSlash(Tail(elems))

\* The elements filepath.Clean keeps: no empty element and no ".", a ".."
\* removes the element before it, and is dropped at the root.
RECURSIVE CleanElems(_, _, _)
CleanElems(elems, rooted, out) ==
    IF elems = <<>> THEN out
    ELSE LET e == Head(elems)
             rest == Tail(elems)
         IN  IF e = "" \/ e = "." THEN CleanElems(rest, rooted, out)
             ELSE IF e = ".."
             THEN IF out # <<>> /\ out[Len(out)] # ".."
                  THEN CleanElems(rest, rooted, SubSeq(out, 1, Len(out) - 1))
                  ELSE IF rooted THEN CleanElems(rest, rooted, out)
                  ELSE CleanElems(rest, rooted, Append(out, e))
             ELSE CleanElems(rest, rooted, Append(out, e))

\* filepath.Clean(path)
Clean(path) ==
    LET rooted == HasPrefix(path, "/")
        body == JoinSlash(CleanElems(SplitSlash(path), rooted, <<>>))
    IN  IF rooted THEN "/" \o body
        ELSE IF body = "" THEN "." ELSE body

\* filepath.Join(elems...): the empty elements are ignored, the rest joined
\* by slashes and cleaned; no non-empty element gives "".
Join(elems) ==
    LET nonEmpty(e) == e # ""
        kept == SelectSeq(elems, nonEmpty)
    IN  IF kept = <<>> THEN "" ELSE Clean(JoinSlash(kept))

\* path without its trailing slashes
RECURSIVE TrimSlashes(_)
TrimSlashes(path) ==
    IF path # "" /\ HasSuffix(path, "/")
    THEN TrimSlashes(SubSeq(path, 1, Len(path) - 1))
    ELSE path

\* filepath.Base(path)
Base(path) ==
    IF path = "" THEN "."
    ELSE LET t == TrimSlashes(path) IN
         IF t = "" THEN "/"
         ELSE LET elems == SplitSlash(t) IN elems[Len(elems)]

\* filepath.Dir(path)
Dir(path) ==
    LET elems == SplitSlash(path) IN
    IF Len(elems) = 1 THEN "."
    ELSE Clean(JoinSlash(SubSeq(elems, 1, Len(elems) - 1)) \o "/")

\* filepath.IsAbs(path)
IsAbs(path) == HasPrefix(path, "/")

(***************************************************************************)
(* Registry descriptor: Registry.UnmarshalYAML, Validate and FilePath      *)
(***************************************************************************)

RegistryTypeGitHubContent == "github_content"
RegistryTypeLocal == "local"
RegistryTypeStandard == "standard"
RegistryTypeHTTP == "http"

\* A Registry; Private takes no part in what is modelled.
Reg(name, type, owner, repo, ref, path, url, version, format) ==
    [Name |-> name, Type |-> type, RepoOwner |-> owner, RepoName |-> repo,
     Ref |-> ref, Path |-> path, URL |-> url, Version |-> version,
     Format |-> format]

\* Mutant: a standard entry's ref is replaced by a default as well.
UnmarshalYAMLDefaultRef(a) ==
    IF a.Type = "standard"
    THEN [a EXCEPT
            !.Type = "github_content",
            !.Name = IF a.Name = "" THEN "standard" ELSE a.Name,
            !.RepoOwner = IF a.RepoOwner = "" THEN "aquaproj" ELSE a.RepoOwner,
            !.RepoName = IF a.RepoName = "" THEN "aqua-registry" ELSE a.RepoName,
            !.Ref = "main",
            !.Path = IF a.Path = "" THEN "registry.yaml" ELSE a.Path]
    ELSE a

\* Registry.UnmarshalYAML applied to the entry as written: a, the decoded
\* alias, is what becomes *r.
UnmarshalYAML(a) ==
    IF a.Type = RegistryTypeStandard
    THEN [a EXCEPT
            !.Type = RegistryTypeGitHubContent,
            !.Name = IF a.Name = "" THEN RegistryTypeStandard ELSE a.Name,
            !.RepoOwner = IF a.RepoOwner = "" THEN "aquaproj" ELSE a.RepoOwner,
            !.RepoName = IF a.RepoName = "" THEN "aqua-registry" ELSE a.RepoName,
            !.Path = IF a.Path = "" THEN "registry.yaml" ELSE a.Path]
    ELSE a

validateLocal(r) ==
    IF r.Path = "" THEN "errPathIsRequired" ELSE "nil"

\* Mutant: the check of main and master is missing.
validateGitHubContentAnyRef(r) ==
    IF r.RepoOwner = "" THEN "errRepoOwnerIsRequired"
    ELSE IF r.RepoName = "" THEN "errRepoNameIsRequired"
    ELSE IF r.Ref = "" THEN "errRefIsRequired"
    ELSE "nil"

validateGitHubContent(r) ==
    IF r.RepoOwner = "" THEN "errRepoOwnerIsRequired"
    ELSE IF r.RepoName = "" THEN "errRepoNameIsRequired"
    ELSE IF r.Ref = "" THEN "errRefIsRequired"
    ELSE IF r.Ref = "main" \/ r.Ref = "master"
    THEN "errRefCannotBeMainOrMaster"
    ELSE "nil"

\* Mutant: the URL is searched for the version instead of the token.
validateHTTPContainsVersion(r) ==
    IF r.URL = "" THEN "errURLIsRequired"
    ELSE IF r.Version = "" THEN "errVersionIsRequired"
    ELSE IF ~Contains(r.URL, r.Version) THEN "errURLMustContainVersion"
    ELSE "nil"

validateHTTP(r) ==
    IF r.URL = "" THEN "errURLIsRequired"
    ELSE IF r.Version = "" THEN "errVersionIsRequired"
    ELSE IF ~Contains(r.URL, "{{.Version}}") THEN "errURLMustContainVersion"
    ELSE "nil"

\* Mutant: a type that is not known is let through.
ValidateDefaultNil(r) ==
    CASE r.Type = RegistryTypeLocal -> validateLocal(r)
      [] r.Type = RegistryTypeGitHubContent -> validateGitHubContent(r)
      [] r.Type = RegistryTypeHTTP -> validateHTTP(r)
      [] OTHER -> "nil"

\* Registry.Validate
Validate(r) ==
    CASE r.Type = RegistryTypeLocal -> validateLocal(r)
      [] r.Type = RegistryTypeGitHubContent -> validateGitHubContent(r)
      [] r.Type = RegistryTypeHTTP -> validateHTTP(r)
      [] OTHER -> "errInvalidRegistryType"

\* hex.EncodeToString(sha256.Sum256([]byte(url))[:])[:16] of the URL
\* templates of the model.
URLHash16 ==
    [u \in {"https://example.com/registry/{{.Version}}/registry.tar.gz",
            "https://example.com/registry/{{.Version}}/registry.yaml",
            "https://e/v1/registry.yaml", ""} |->
        CASE u = "https://example.com/registry/{{.Version}}/registry.tar.gz"
                -> "06eeabea3ca08429"
          [] u = "https://example.com/registry/{{.Version}}/registry.yaml"
                -> "136a89ecf9f4dad9"
          [] u = "https://e/v1/registry.yaml" -> "97eb0528a520c243"
          [] OTHER -> "e3b0c44298fc1c14"]

\* osfile.Abs(wd, p): p when it is absolute, wd joined with p otherwise.
Abs(wd, p) == IF IsAbs(p) THEN p ELSE Join(<<wd, p>>)

\* Mutant: the file name of an http registry is its whole Path.
httpFileNameWholePath(r) ==
    IF r.Path # "" THEN r.Path ELSE "registry.yaml"

\* registryFileName in FilePath
httpFileName(r) ==
    IF r.Path # "" THEN Base(r.Path) ELSE "registry.yaml"

\* Registry.FilePath: the path and the error.
FilePath(r, rootDir, cfgFilePath) ==
    CASE r.Type = RegistryTypeLocal ->
            [path |-> Abs(Dir(cfgFilePath), r.Path), err |-> "nil"]
      [] r.Type = RegistryTypeGitHubContent ->
            [path |-> Join(<<rootDir, "registries", r.Type, "github.com",
                             r.RepoOwner, r.RepoName, r.Ref, r.Path>>),
             err |-> "nil"]
      [] r.Type = RegistryTypeHTTP ->
            [path |-> Join(<<rootDir, "registries", r.Type, URLHash16[r.URL],
                             r.Version, httpFileName(r)>>),
             err |-> "nil"]
      [] OTHER -> [path |-> "", err |-> "errInvalidRegistryType"]

(***************************************************************************)
(* Http registry installer: getHTTPRegistry, saveHTTPRegistry and          *)
(* extractHTTPRegistryArchive                                              *)
(***************************************************************************)

\* Number of getHTTPRegistry calls made in a run.
MaxHTTPCalls == 1

\* The tasks of the sequential specification.
SeqTasks == {"t1"}

\* Response bodies: a registry in YAML, the same registry in JSON, a page
\* that is no registry, and two archives.
YAMLBody == "packages: [{name: gh}]"
JSONBody == "{\"packages\": [{\"name\": \"gh\"}]}"
NotFoundBody == "Not Found"
ArchiveYAML == "tar(registry.yaml, foo/registry.yaml)"
ArchiveYML == "tar(registry.yml)"
RegistryBodies == {YAMLBody, JSONBody, NotFoundBody, ArchiveYAML, ArchiveYML}

\* The files of an archive, by their path in it; no file for what is no
\* archive.
ArchiveFiles(content) ==
    CASE content = ArchiveYAML ->
            [f \in {"registry.yaml", "foo/registry.yaml"} |->
                IF f = "registry.yaml" THEN YAMLBody ELSE JSONBody]
      [] content = ArchiveYML -> [f \in {"registry.yml"} |-> NotFoundBody]
      [] OTHER -> <<>>

\* The registry.Config a text decodes to.
ParsedConfig == "Config{PackageInfos: [gh]}"
EmptyConfig == "Config{}"

\* json.Unmarshal(content, registryContent): the content, and the error.
jsonUnmarshal(content) ==
    IF content = JSONBody THEN HRet(ParsedConfig, "nil")
    ELSE HRet("", "parse the registry configuration file as JSON")

\* yaml.Unmarshal(content, registryContent): JSON is YAML, and the empty
\* document decodes to the zero Config.
yamlUnmarshal(content) ==
    IF content \in {YAMLBody, JSONBody} THEN HRet(ParsedConfig, "nil")
    ELSE IF content = "" THEN HRet(EmptyConfig, "nil")
    ELSE HRet("", "parse the registry configuration file as YAML")

isJSON(path) == HasSuffix(path, ".json")

\* The parsing of saveHTTPRegistry.
parse(path, content) ==
    IF isJSON(path) THEN jsonUnmarshal(content) ELSE yamlUnmarshal(content)

\* template.Execute(regist.URL, {"Version": regist.Version}): the action
\* {{.Version}} is replaced by the version; an action left open is an error.
templateExecute(url, version) ==
    LET out == ReplaceAll(url, "{{.Version}}", version) IN
    IF Contains(out, "{{") THEN [url |-> "", err |-> TRUE]
    ELSE [url |-> out, err |-> FALSE]

\* The http registries the installer is called with: a plain registry file
\* and an archive, with and without a path.
HTTPRegs ==
    {Reg("http-registry", RegistryTypeHTTP, "", "", "", path, src.url,
         "v1.0.0", src.format) :
        path \in {"", "registry.json", "foo/registry.yaml"},
        src \in {[url |-> "https://example.com/registry/{{.Version}}/registry.yaml",
                  format |-> ""],
                 [url |-> "https://example.com/registry/{{.Version}}/registry.tar.gz",
                  format |-> "tar.gz"]}}

\* One logged call: the operation, its argument, and whether it succeeded.
HEv(op, arg, ok) == [op |-> op, arg |-> arg, ok |-> ok]

HTTPInit ==
    /\ hfs = EmptyFs
    /\ hpc = [t \in Tasks |-> "idle"]
    /\ hreg = [t \in Tasks |-> NoReg]
    /\ hck = [t \in Tasks |-> FALSE]
    /\ hpath = [t \in Tasks |-> ""]
    /\ htmp = [t \in Tasks |-> NoTemp]
    /\ hcontent = [t \in Tasks |-> ""]
    /\ hdefer = [t \in Tasks |-> FALSE]
    /\ hret = [t \in Tasks |-> HRet("", "none")]
    /\ hlog = [t \in Tasks |-> <<>>]
    /\ hpre = [t \in Tasks |-> EmptyFs]
    /\ hcount = 0

\* The file at path has the given content.
PutFile(f, path, content) ==
    [f EXCEPT !.files =
        [q \in DOMAIN f.files \cup {path} |->
            IF q = path THEN content ELSE f.files[q]]]

\* is.fs.MkdirAll(dir, 0o755)
MkdirAll(f, dir) == [f EXCEPT !.dirs = f.dirs \cup {dir}]

\* is.fs.RemoveAll(dir): dir and everything under it.
RemoveAll(f, dir) ==
    LET sub == dir \o "/"
        under(q) == q = dir \/ HasPrefix(q, sub)
    IN
    [dirs |-> {q \in f.dirs : ~under(q)},
     files |-> [q \in {x \in DOMAIN f.files : ~under(x)} |-> f.files[q]]]

\* What afero.WriteFile(is.fs, path, content, perm) can leave: the file with
\* the content; nothing new, when the file could not be opened; or the file
\* created or truncated but not written.
WriteFile(f, path, content) ==
    {[fs |-> PutFile(f, path, content), ok |-> TRUE],
     [fs |-> f, ok |-> FALSE],
     [fs |-> PutFile(f, path, ""), ok |-> FALSE]}

\* Mutant: the temporary directory is left to the caller.
HReturnSkipsRemoveAll(t, ret) ==
    /\ hret' = [hret EXCEPT ![t] = ret]
    /\ hpc' = [hpc EXCEPT ![t] =
                IF hdefer[t] /\ ret.err # "nil" THEN "RemoveAll" ELSE "done"]

\* getHTTPRegistry returns to task t, unless the deferred RemoveAll is yet
\* to run.
HReturn(t, ret) ==
    /\ hret' = [hret EXCEPT ![t] = ret]
    /\ hpc' = [hpc EXCEPT ![t] = IF hdefer[t] THEN "RemoveAll" ELSE "done"]

\* Task t calls getHTTPRegistry for a registry, with its cache path and with
\* or without a checksum set.
getHTTPRegistryCall(t) ==
    /\ hpc[t] \in {"idle", "done"}
    /\ hcount < MaxHTTPCalls
    /\ hcount' = hcount + 1
    /\ \E r \in HTTPRegs, ck \in BOOLEAN :
        /\ hreg' = [hreg EXCEPT ![t] = r]
        /\ hck' = [hck EXCEPT ![t] = ck]
        /\ hpath' = [hpath EXCEPT ![t] =
                        FilePath(r, RootDir, "aqua.yaml").path]
    /\ htmp' = [htmp EXCEPT ![t] = NoTemp]
    /\ hpc' = [hpc EXCEPT ![t] = "Download"]
    /\ hcontent' = [hcontent EXCEPT ![t] = ""]
    /\ hdefer' = [hdefer EXCEPT ![t] = FALSE]
    /\ hret' = [hret EXCEPT ![t] = HRet("", "none")]
    /\ hlog' = [hlog EXCEPT ![t] = <<>>]
    /\ hpre' = [hpre EXCEPT ![t] = hfs]
    /\ UNCHANGED hfs
    /\ UNCHANGED httpOthers

\* Mutant: the checksum is never checked.
checkBeforeMkdirNever(ck) == FALSE

\* The checksum is checked at this point, before the cache is touched, when
\* checksums is not nil.
checkBeforeMkdir(ck) == ck

\* Mutant: the URL template is downloaded as it is.
renderedURLRaw(r) == [url |-> r.URL, err |-> FALSE]

\* renderedURL, err := template.Execute(regist.URL, ...)
renderedURL(r) == templateExecute(r.URL, r.Version)

\* getHTTPRegistry up to the creation of the parent directory: the URL is
\* rendered and downloaded, the body read and its checksum checked.
getHTTPRegistryDownload(t) ==
    /\ hpc[t] = "Download"
    /\ LET u == renderedURL(hreg[t]) IN
       IF u.err
       THEN /\ HReturn(t, HRet("", "render registry URL"))
            /\ UNCHANGED <<hlog, hcontent>>
       ELSE \E status \in {"ok", "404", "read error"}, body \in RegistryBodies,
               ckOk \in BOOLEAN :
            LET dl == HEv("Download", u.url, status # "404")
                ck == HEv("CheckRegistry", body, ckOk)
            IN  IF status = "404"
                THEN /\ HReturn(t, HRet("", "download registry from HTTP"))
                     /\ hlog' = [hlog EXCEPT ![t] = Append(@, dl)]
                     /\ UNCHANGED hcontent
                ELSE IF status = "read error"
                THEN /\ HReturn(t, HRet("", "read registry content"))
                     /\ hlog' = [hlog EXCEPT ![t] = Append(@, dl)]
                     /\ UNCHANGED hcontent
                ELSE IF checkBeforeMkdir(hck[t])
                THEN /\ hlog' = [hlog EXCEPT ![t] = Append(Append(@, dl), ck)]
                     /\ hcontent' = [hcontent EXCEPT ![t] = body]
                     /\ IF ckOk
                        THEN hpc' = [hpc EXCEPT ![t] = "MkdirAll"]
                             /\ UNCHANGED hret
                        ELSE HReturn(t, HRet("", "check a registry's checksum"))
                ELSE /\ hlog' = [hlog EXCEPT ![t] = Append(@, dl)]
                     /\ hcontent' = [hcontent EXCEPT ![t] = body]
                     /\ hpc' = [hpc EXCEPT ![t] = "MkdirAll"]
                     /\ UNCHANGED hret
    /\ UNCHANGED <<hfs, hreg, hck, hpath, htmp, hdefer, hpre, hcount>>
    /\ UNCHANGED httpOthers

\* is.fs.MkdirAll(filepath.Dir(registryFilePath), 0o755), and the choice
\* between the archive and the plain file.
getHTTPRegistryMkdirAll(t) ==
    /\ hpc[t] = "MkdirAll"
    /\ LET dir == Dir(hpath[t]) IN
       \E ioOk \in BOOLEAN :
        /\ hlog' = [hlog EXCEPT ![t] =
                        Append(@, HEv("MkdirAll", dir, ioOk))]
        /\ IF ioOk
           THEN /\ hfs' = MkdirAll(hfs, dir)
                /\ hpc' = [hpc EXCEPT ![t] =
                            IF hreg[t].Format # "" THEN "tempDir" ELSE "save"]
                /\ UNCHANGED hret
           ELSE /\ HReturn(t, HRet("",
                    "create the parent directory of the registry file"))
                /\ UNCHANGED hfs
    /\ UNCHANGED <<hreg, hck, hpath, htmp, hcontent, hdefer, hpre, hcount>>
    /\ UNCHANGED httpOthers

\* saveHTTPRegistry: the content is written to registryFilePath, then
\* parsed.
saveHTTPRegistry(t) ==
    /\ hpc[t] = "save"
    /\ \E w \in WriteFile(hfs, hpath[t], hcontent[t]) :
        /\ hfs' = w.fs
        /\ hlog' = [hlog EXCEPT ![t] =
                        Append(@, HEv("WriteFile", hpath[t], w.ok))]
        /\ IF w.ok
           THEN HReturn(t, parse(hpath[t], hcontent[t]))
           ELSE HReturn(t, HRet("", "write the registry file"))
    /\ UNCHANGED <<hreg, hck, hpath, htmp, hcontent, hdefer, hpre, hcount>>
    /\ UNCHANGED httpOthers

\* tempDir, tempArchivePath and extractDir of extractHTTPRegistryArchive.
TempDir(t) == Join(<<Dir(hpath[t]), ".tmp">>)
TempArchivePath(t) == Join(<<TempDir(t), "registry." \o hreg[t].Format>>)
ExtractDir(t) == Join(<<TempDir(t), "extract">>)

\* extractHTTPRegistryArchive: is.fs.MkdirAll(tempDir, 0o755) and the defer
\* of is.fs.RemoveAll(tempDir).
extractMkdirTemp(t) ==
    /\ hpc[t] = "tempDir"
    /\ LET tempDir == TempDir(t) IN
       \E ioOk \in BOOLEAN :
        /\ htmp' = [htmp EXCEPT ![t] =
                        [tempDir |-> tempDir,
                         tempArchivePath |-> TempArchivePath(t),
                         extractDir |-> ExtractDir(t)]]
        /\ hlog' = [hlog EXCEPT ![t] =
                        Append(@, HEv("MkdirAll", tempDir, ioOk))]
        /\ IF ioOk
           THEN /\ hfs' = MkdirAll(hfs, tempDir)
                /\ hdefer' = [hdefer EXCEPT ![t] = TRUE]
                /\ hpc' = [hpc EXCEPT ![t] = "writeArchive"]
                /\ UNCHANGED hret
           ELSE /\ HReturn(t, HRet("", "create temporary directory"))
                /\ UNCHANGED <<hfs, hdefer>>
    /\ UNCHANGED <<hreg, hck, hpath, hcontent, hpre, hcount>>
    /\ UNCHANGED httpOthers

\* afero.WriteFile(is.fs, tempArchivePath, content, ...)
extractWriteArchive(t) ==
    /\ hpc[t] = "writeArchive"
    /\ LET tempArchivePath == htmp[t].tempArchivePath IN
       \E w \in WriteFile(hfs, tempArchivePath, hcontent[t]) :
        /\ hfs' = w.fs
        /\ hlog' = [hlog EXCEPT ![t] =
                        Append(@, HEv("WriteFile", tempArchivePath, w.ok))]
        /\ IF w.ok
           THEN hpc' = [hpc EXCEPT ![t] = "extractDir"] /\ UNCHANGED hret
           ELSE HReturn(t, HRet("", "write temporary archive file"))
    /\ UNCHANGED <<hreg, hck, hpath, htmp, hcontent, hdefer, hpre, hcount>>
    /\ UNCHANGED httpOthers

\* is.fs.MkdirAll(extractDir, 0o755)
extractMkdirExtract(t) ==
    /\ hpc[t] = "extractDir"
    /\ LET extractDir == htmp[t].extractDir IN
       \E ioOk \in BOOLEAN :
        /\ hlog' = [hlog EXCEPT ![t] =
                        Append(@, HEv("MkdirAll", extractDir, ioOk))]
        /\ IF ioOk
           THEN /\ hfs' = MkdirAll(hfs, extractDir)
                /\ hpc' = [hpc EXCEPT ![t] = "Unarchive"]
                /\ UNCHANGED hret
           ELSE /\ HReturn(t, HRet("", "create extraction directory"))
                /\ UNCHANGED hfs
    /\ UNCHANGED <<hreg, hck, hpath, htmp, hcontent, hdefer, hpre, hcount>>
    /\ UNCHANGED httpOthers

\* The files of archive a written under dir.
Extracted(f, dir, a) ==
    LET full == [n \in DOMAIN a |-> Join(<<dir, n>>)]
        paths == {full[n] : n \in DOMAIN a}
        inner(q) == CHOOSE n \in DOMAIN a : full[n] = q
    IN  [f EXCEPT !.files =
            [q \in DOMAIN f.files \cup paths |->
                IF q \in paths THEN a[inner(q)] ELSE f.files[q]]]

\* unarchiver.Unarchive: the file at tempArchivePath is opened and, when it
\* is an archive of the format, its files are written under extractDir.
extractUnarchive(t) ==
    /\ hpc[t] = "Unarchive"
    /\ LET tempArchivePath == htmp[t].tempArchivePath IN
       \E ioOk \in BOOLEAN :
        LET there == tempArchivePath \in DOMAIN hfs.files
            a == IF there THEN ArchiveFiles(hfs.files[tempArchivePath])
                 ELSE <<>>
            ok == ioOk /\ a # <<>>
        IN  /\ hlog' = [hlog EXCEPT ![t] =
                            Append(@, HEv("Unarchive", tempArchivePath, ok))]
            /\ IF ok
               THEN /\ hfs' = Extracted(hfs, htmp[t].extractDir, a)
                    /\ hpc' = [hpc EXCEPT ![t] = "find"]
                    /\ UNCHANGED hret
               ELSE /\ HReturn(t, HRet("", "unarchive registry"))
                    /\ UNCHANGED hfs
    /\ UNCHANGED <<hreg, hck, hpath, htmp, hcontent, hdefer, hpre, hcount>>
    /\ UNCHANGED httpOthers

\* Mutant: a path that is set falls back to the default name.
searchPathsWithFallback(r) ==
    IF r.Path = "" THEN <<"registry.yaml", "registry.yml">>
    ELSE <<r.Path, "registry.yaml">>

\* searchPaths of extractHTTPRegistryArchive
searchPaths(r) ==
    IF r.Path = "" THEN <<"registry.yaml", "registry.yml">> ELSE <<r.Path>>

\* The afero.ReadFile calls of the loop over the search paths sp that ends
\* at its n-th pass, the last one reading the file or not.
ReadAttempts(sp, n, hit) ==
    [k \in 1..n |-> HEv("ReadFile", sp[k], k = n /\ hit)]

\* The loop over searchPaths: the first one afero.ReadFile reads is taken;
\* unreadable are the files that are not there and those in bad, which an
\* I/O error hits.
extractFind(t) ==
    /\ hpc[t] = "find"
    /\ LET sp == searchPaths(hreg[t])
           extractDir == htmp[t].extractDir
           fullPath == [k \in DOMAIN sp |-> Join(<<extractDir, sp[k]>>)]
           full(k) == fullPath[k]
       IN  \E bad \in SUBSET DOMAIN sp :
            LET readable == {k \in DOMAIN sp :
                                k \notin bad /\ full(k) \in DOMAIN hfs.files}
            IN  IF readable = {}
                THEN /\ hlog' = [hlog EXCEPT ![t] =
                                    @ \o ReadAttempts(sp, Len(sp), FALSE)]
                     /\ HReturn(t, HRet("", "registry file not found in archive"))
                     /\ UNCHANGED hcontent
                ELSE LET k == CHOOSE x \in readable :
                                    \A y \in readable : x <= y
                     IN  /\ hlog' = [hlog EXCEPT ![t] =
                                        @ \o ReadAttempts(sp, k, TRUE)]
                         /\ hcontent' = [hcontent EXCEPT ![t] =
                                            hfs.files[full(k)]]
                         /\ hpc' = [hpc EXCEPT ![t] = "save"]
                         /\ UNCHANGED hret
    /\ UNCHANGED <<hfs, hreg, hck, hpath, htmp, hdefer, hpre, hcount>>
    /\ UNCHANGED httpOthers

\* The deferred is.fs.RemoveAll(tempDir); its error is dropped.
extractRemoveAll(t) ==
    /\ hpc[t] = "RemoveAll"
    /\ LET tempDir == htmp[t].tempDir IN
       \E ioOk \in BOOLEAN :
        /\ hlog' = [hlog EXCEPT ![t] =
                        Append(@, HEv("RemoveAll", tempDir, ioOk))]
        /\ hfs' = IF ioOk THEN RemoveAll(hfs, tempDir) ELSE hfs
    /\ hdefer' = [hdefer EXCEPT ![t] = FALSE]
    /\ hpc' = [hpc EXCEPT ![t] = "done"]
    /\ UNCHANGED <<hreg, hck, hpath, htmp, hcontent, hret, hpre, hcount>>
    /\ UNCHANGED httpOthers

\* One task of InstallRegistries at a time.
HTTPNext ==
    \E t \in SeqTasks :
        \/ getHTTPRegistryCall(t)
        \/ getHTTPRegistryDownload(t)
        \/ getHTTPRegistryMkdirAll(t)
        \/ saveHTTPRegistry(t)
        \/ extractMkdirTemp(t)
        \/ extractWriteArchive(t)
        \/ extractMkdirExtract(t)
        \/ extractUnarchive(t)
        \/ extractFind(t)
        \/ extractRemoveAll(t)

\* An empty registry cache; the other parts stay idle.
InitHTTP ==
    HTTPInit /\ ExecIdle /\ DlIdle /\ LinkIdle /\ ShimIdle /\ RegIdle /\ FindIdle

SpecHTTP == InitHTTP /\ [][HTTPNext]_vars

(***************************************************************************)
(* Properties of the http registry installer                               *)
(***************************************************************************)

\* The operations that write under <root>/registries.
HWriteOps == {"MkdirAll", "WriteFile", "Unarchive", "RemoveAll"}

\* C12: a file present at an http registry's cache path signifies a
\* completed acquisition: when getHTTPRegistry has returned and a file is at
\* the cache path, the call returned success with parsed registry content,
\* and the file parses when a later invocation reads it.
C12_FileMeansCompleted ==
    \A t \in SeqTasks :
        (hpc[t] = "done" /\ hpath[t] \in DOMAIN hfs.files)
        => /\ hret[t].err = "nil"
           /\ hret[t].cfg # ""
           /\ parse(hpath[t], hfs.files[hpath[t]]).err = "nil"

\* C13: when a checksum set is supplied, getHTTPRegistry verifies the
\* downloaded bytes before touching the cache: every write under the cache
\* location comes after a successful check, and on a checksum failure the
\* call returns an error with no directory or file created or written; when
\* the checksum set is nil no verification is performed.
C13_ChecksumBeforeCache ==
    \A t \in SeqTasks :
        LET log == hlog[t]
            failed == \E k \in DOMAIN log :
                        log[k].op = "CheckRegistry" /\ ~log[k].ok
        IN  /\ hck[t] =>
                \A k \in DOMAIN log :
                    log[k].op \in HWriteOps
                    => \E l \in 1..(k - 1) :
                        /\ log[l].op = "CheckRegistry"
                        /\ log[l].ok
            /\ failed =>
                /\ hpc[t] = "done"
                /\ hret[t] = HRet("", "check a registry's checksum")
                /\ hfs = hpre[t]
                /\ \A k \in DOMAIN log : log[k].op \notin HWriteOps
            /\ ~hck[t] => \A k \in DOMAIN log : log[k].op # "CheckRegistry"

\* A call with a checksum set has returned the checksum error after the
\* download, with the cache untouched.
C13_Witness ==
    /\ hpc["t1"] = "done"
    /\ hck["t1"]
    /\ hret["t1"].err = "check a registry's checksum"
    /\ Len(hlog["t1"]) = 2
    /\ hlog["t1"][1].op = "Download"
    /\ hlog["t1"][2] = HEv("CheckRegistry", hcontent["t1"], FALSE)
    /\ hfs = EmptyFs

\* C14: for an http registry with empty format, getHTTPRegistry GETs the
\* URL obtained by substituting the registry's Version into the URL
\* template; when it returns success the response body is, unchanged, the
\* file at the registry's cache path and the returned content is what the
\* body parses to; if the download fails it returns an error and creates
\* neither the cache file nor its parent directory.
C14_PlainRegistry ==
    \A t \in SeqTasks :
        LET log == hlog[t]
            r == hreg[t]
        IN  (hpc[t] # "idle" /\ r.Format = "") =>
            /\ \A k \in DOMAIN log :
                (log[k].op = "Download"
                    /\ r.URL = "https://example.com/registry/{{.Version}}/registry.yaml")
                => log[k].arg = "https://example.com/registry/" \o r.Version
                                    \o "/registry.yaml"
            /\ (hpc[t] = "done" /\ hret[t].err = "nil") =>
                /\ log # <<>> /\ log[1].op = "Download" /\ log[1].ok
                /\ hpath[t] \in DOMAIN hfs.files
                /\ hfs.files[hpath[t]] = hcontent[t]
                /\ Dir(hpath[t]) \in hfs.dirs
                /\ hret[t].cfg = ParsedConfig
                /\ hcontent[t] \in {YAMLBody, JSONBody}
                /\ HasSuffix(hpath[t], ".json") => hcontent[t] = JSONBody
            /\ (\E k \in DOMAIN log : log[k].op = "Download" /\ ~log[k].ok) =>
                /\ hpc[t] = "done"
                /\ hret[t].err # "nil"
                /\ hfs = hpre[t]

\* A plain registry has been downloaded from the rendered URL, written to
\* its cache path and returned parsed.
C14_Witness ==
    /\ hpc["t1"] = "done"
    /\ hreg["t1"].Format = ""
    /\ hret["t1"] = HRet(ParsedConfig, "nil")
    /\ hlog["t1"][1] =
        HEv("Download", "https://example.com/registry/v1.0.0/registry.yaml", TRUE)
    /\ hpath["t1"] \in DOMAIN hfs.files
    /\ hfs.files[hpath["t1"]] = YAMLBody

\* The ReadFile calls task t has made, in order.
Reads(t) == SelectSeq(hlog[t], LAMBDA e : e.op = "ReadFile")

\* The writes of task t to its cache path.
CacheWrites(t) ==
    {k \in DOMAIN hlog[t] :
        hlog[t][k].op = "WriteFile" /\ hlog[t][k].arg = hpath[t]}

\* C29: when an http registry has a format, the registry file is looked up
\* inside the extracted archive at exactly Path if Path is set (with no
\* fallback to the default names), and otherwise at registry.yaml and then
\* registry.yml, the first readable one winning; if none is readable the
\* call fails and nothing is written to the registry's cache path.
C29_ArchiveLookup ==
    \A t \in SeqTasks :
        LET r == hreg[t]
            reads == Reads(t)
            names == IF r.Path # "" THEN <<r.Path>>
                     ELSE <<"registry.yaml", "registry.yml">>
        IN  (r.Format # "" /\ reads # <<>>) =>
            /\ Len(reads) <= Len(names)
            /\ \A k \in DOMAIN reads :
                /\ reads[k].arg = names[k]
                /\ k < Len(reads) => ~reads[k].ok
            /\ reads[Len(reads)].ok =>
                \A k \in CacheWrites(t) :
                    hlog[t][k].ok =>
                        \E a \in {ArchiveYAML, ArchiveYML} :
                            /\ names[Len(reads)] \in DOMAIN ArchiveFiles(a)
                            /\ hfs.files[hpath[t]] =
                                    ArchiveFiles(a)[names[Len(reads)]]
            /\ ~reads[Len(reads)].ok =>
                /\ Len(reads) = Len(names)
                /\ hret[t] = HRet("", "registry file not found in archive")
                /\ CacheWrites(t) = {}
                /\ hpath[t] \notin DOMAIN hfs.files
                    \/ (hpath[t] \in DOMAIN hpre[t].files
                        /\ hfs.files[hpath[t]] = hpre[t].files[hpath[t]])

\* registry.yaml could not be read in the extracted archive, registry.yml
\* was read instead and written to the cache path.
C29_Witness ==
    /\ hpc["t1"] = "done"
    /\ hreg["t1"].Path = ""
    /\ hreg["t1"].Format # ""
    /\ Len(Reads("t1")) = 2
    /\ Reads("t1")[2] = HEv("ReadFile", "registry.yml", TRUE)
    /\ hpath["t1"] \in DOMAIN hfs.files
    /\ hfs.files[hpath["t1"]] = NotFoundBody

\* The path was set and not readable in the archive, which holds
\* registry.yaml: the call failed without looking at registry.yaml.
C29_WitnessNoFallback ==
    /\ hpc["t1"] = "done"
    /\ hreg["t1"].Path = "registry.json"
    /\ Reads("t1") = <<HEv("ReadFile", "registry.json", FALSE)>>
    /\ hret["t1"].err = "registry file not found in archive"
    /\ hpath["t1"] \notin DOMAIN hfs.files

\* Task t has created the temporary directory td.
TempCreatedAt(t, td) ==
    \E k \in DOMAIN hlog[t] :
        /\ hlog[t][k].op = "MkdirAll"
        /\ hlog[t][k].ok
        /\ hlog[t][k].arg = td

\* The directory td, or something under it, is there.
RemainsAt(td) ==
    \/ td \in hfs.dirs
    \/ \E q \in hfs.dirs \cup DOMAIN hfs.files : HasPrefix(q, td \o "/")

TempCreated(t) == TempCreatedAt(t, TempDir(t))
TempRemains(t) == RemainsAt(TempDir(t))

\* C30 as stated: once extractHTTPRegistryArchive has created its temporary
\* directory, no .tmp directory remains after the call returns.
C30_Original ==
    \A t \in SeqTasks :
        (hpc[t] = "done" /\ TempCreated(t)) => ~TempRemains(t)

\* C30: once extractHTTPRegistryArchive has created its temporary directory
\* (<directory of the cache path>/.tmp, holding the downloaded archive and
\* the extraction tree), it calls RemoveAll on that directory as the last
\* step of every return path, success or failure; no .tmp directory
\* remains after the call returns when that RemoveAll succeeds, and its
\* error is dropped.
C30_TempDirRemoved ==
    \A t \in SeqTasks :
        LET log == hlog[t]
            removes == {k \in DOMAIN log : log[k].op = "RemoveAll"}
            td == TempDir(t)
            created == TempCreatedAt(t, td)
        IN  /\ hpc[t] # "done" => removes = {}
            /\ (hpc[t] = "done" /\ hreg[t].Format = "") => removes = {}
            /\ (hpc[t] = "done" /\ hreg[t].Format # "") =>
                IF created
                THEN /\ removes = {Len(log)}
                     /\ log[Len(log)].arg = td
                     /\ log[Len(log)].ok => ~RemainsAt(td)
                     /\ hret[t].err # "none"
                ELSE removes = {}

\* An archive registry has been installed and the temporary directory is
\* gone.
C30_Witness ==
    /\ hpc["t1"] = "done"
    /\ hret["t1"] = HRet(ParsedConfig, "nil")
    /\ TempCreated("t1")
    /\ hlog["t1"][Len(hlog["t1"])] = HEv("RemoveAll", TempDir("t1"), TRUE)
    /\ ~TempRemains("t1")
    /\ hpath["t1"] \in DOMAIN hfs.files

(***************************************************************************)
(* Two tasks of one InstallRegistries run                                  *)
(***************************************************************************)

\* The archive registries of one configuration that share the URL template
\* and the version and differ in the path: their cache paths are in the
\* same directory.
ParRegs ==
    [t1 |-> Reg("a", RegistryTypeHTTP, "", "", "", "",
                "https://example.com/registry/{{.Version}}/registry.tar.gz",
                "v1.0.0", "tar.gz"),
     t2 |-> Reg("b", RegistryTypeHTTP, "", "", "", "foo/registry.yaml",
                "https://example.com/registry/{{.Version}}/registry.tar.gz",
                "v1.0.0", "tar.gz")]

\* InstallRegistries starts the task of a registry, which calls
\* getHTTPRegistry without a checksum set.
installRegistriesTask(t) ==
    /\ hpc[t] = "idle"
    /\ hcount' = hcount + 1
    /\ hreg' = [hreg EXCEPT ![t] = ParRegs[t]]
    /\ hck' = [hck EXCEPT ![t] = FALSE]
    /\ hpath' = [hpath EXCEPT ![t] =
                    FilePath(ParRegs[t], RootDir, "aqua.yaml").path]
    /\ hpc' = [hpc EXCEPT ![t] = "Download"]
    /\ hpre' = [hpre EXCEPT ![t] = hfs]
    /\ UNCHANGED <<hfs, htmp, hcontent, hdefer, hret, hlog>>
    /\ UNCHANGED httpOthers

\* The tasks run concurrently, one file system call at a time.
HTTPParNext ==
    \E t \in Tasks :
        \/ installRegistriesTask(t)
        \/ getHTTPRegistryDownload(t)
        \/ getHTTPRegistryMkdirAll(t)
        \/ saveHTTPRegistry(t)
        \/ extractMkdirTemp(t)
        \/ extractWriteArchive(t)
        \/ extractMkdirExtract(t)
        \/ extractUnarchive(t)
        \/ extractFind(t)
        \/ extractRemoveAll(t)

SpecHTTPPar == InitHTTP /\ [][HTTPParNext]_vars

\* C26: concurrent archive-registry installs within one InstallRegistries
\* run do not interfere: when two http registries with a format resolve to
\* cache paths in the same directory, each task's temporary archive and
\* extraction tree stay intact until that task has finished reading them.
C26_NoInterference ==
    \A t \in Tasks :
        /\ hpc[t] \in {"extractDir", "Unarchive"} =>
            /\ TempArchivePath(t) \in DOMAIN hfs.files
            /\ hfs.files[TempArchivePath(t)] = hcontent[t]
        /\ hpc[t] = "find" =>
            /\ ExtractDir(t) \in hfs.dirs
            /\ \A n \in DOMAIN ArchiveFiles(hcontent[t]) :
                /\ Join(<<ExtractDir(t), n>>) \in DOMAIN hfs.files
                /\ hfs.files[Join(<<ExtractDir(t), n>>)] =
                        ArchiveFiles(hcontent[t])[n]

(***************************************************************************)
(* Registry descriptors read, validated and located                        *)
(***************************************************************************)

TokenURL == "https://example.com/registry/{{.Version}}/registry.tar.gz"
PlainURL == "https://e/v1/registry.yaml"

\* Registries as they are written in a config or built in Go: entries of
\* type standard, github_content, http and local, and two of no known type.
StandardEntries ==
    {Reg(name, RegistryTypeStandard, owner, repo, ref, path, "", "", "") :
        name \in {"", "my"}, owner \in {"", "x"}, repo \in {"", "y"},
        ref \in {"", "v2.5.0"}, path \in {"", "foo.yaml"}}

GitHubContentEntries ==
    {Reg("r", RegistryTypeGitHubContent, owner, repo, ref, path, "", "", "") :
        owner \in {"", "aquaproj"}, repo \in {"", "aqua-registry"},
        ref \in {"", "main", "master", "v0.8.0"},
        path \in {"foo.yaml", "registry.yaml"}}

HTTPEntries ==
    {Reg("r", RegistryTypeHTTP, "", "", "", path, url, version, "tar.gz") :
        path \in {"", "custom.yaml", "a/registry.yaml", "b/registry.yaml"},
        url \in {"", TokenURL, PlainURL},
        version \in {"", "v1", "v1.0.0"}}

OtherEntries ==
    {Reg("r", type, "", "", "", path, "", "", "") :
        type \in {RegistryTypeLocal, "invalid-type", ""},
        path \in {"", "foo.yaml"}}

RegEntries ==
    StandardEntries \cup GitHubContentEntries \cup HTTPEntries
        \cup OtherEntries

RegInit ==
    /\ entry \in RegEntries
    /\ reg = entry
    /\ rpc = "new"
    /\ rvalid = "none"
    /\ rfp = [path |-> "", err |-> "none"]
    /\ rroot = "/root/.aqua"
    /\ rcfg \in {"aqua.yaml", "ci/aqua.yaml"}

\* The entry is read from YAML: Registry.UnmarshalYAML.
registryRead ==
    /\ rpc = "new"
    /\ reg' = UnmarshalYAML(entry)
    /\ rpc' = "read"
    /\ UNCHANGED <<entry, rvalid, rfp, rroot, rcfg>>
    /\ UNCHANGED regOthers

\* r.Validate(), on a registry read from YAML or built in Go.
registryValidate ==
    /\ rpc \in {"new", "read"}
    /\ rvalid' = Validate(reg)
    /\ rpc' = "validated"
    /\ UNCHANGED <<entry, reg, rfp, rroot, rcfg>>
    /\ UNCHANGED regOthers

\* Mutant: FilePath stores the file name it used in the registry's Path.
registryFilePathSetsPath ==
    /\ rpc \in {"validated", "located"}
    /\ rfp' = FilePath(reg, rroot, rcfg)
    /\ reg' = IF reg.Type = RegistryTypeHTTP
              THEN [reg EXCEPT !.Path = httpFileName(reg)]
              ELSE reg
    /\ rpc' = IF rpc = "validated" THEN "located" ELSE "relocated"
    /\ UNCHANGED <<entry, rvalid, rroot, rcfg>>
    /\ UNCHANGED regOthers

\* r.FilePath(rootDir, cfgFilePath), called a first and a second time on
\* the same registry.
registryFilePath ==
    /\ rpc \in {"validated", "located"}
    /\ rfp' = FilePath(reg, rroot, rcfg)
    /\ rpc' = IF rpc = "validated" THEN "located" ELSE "relocated"
    /\ UNCHANGED <<entry, reg, rvalid, rroot, rcfg>>
    /\ UNCHANGED regOthers

RegNext ==
    \/ registryRead
    \/ registryValidate
    \/ registryFilePath

\* One registry descriptor; the other parts stay idle.
InitReg ==
    RegInit /\ ExecIdle /\ DlIdle /\ LinkIdle /\ ShimIdle /\ HTTPIdle
        /\ FindIdle

SpecReg == InitReg /\ [][RegNext]_vars

(***************************************************************************)
(* Properties of the registry descriptor                                   *)
(***************************************************************************)

CachedTypes == {RegistryTypeGitHubContent, RegistryTypeHTTP}

\* The identity tuple of a registry of a cached type.
Identity(r) ==
    IF r.Type = RegistryTypeGitHubContent
    THEN <<r.Type, r.RepoOwner, r.RepoName, r.Ref, r.Path>>
    ELSE <<r.Type, r.URL, r.Version, r.Path>>

\* C15: the registry cache path is a key for the registry's identity: for
\* any two registries of a cached type (github_content or http) that both
\* pass Validate and differ in their identity tuple, FilePath with the same
\* rootDir returns different paths.
C15_PathIsKey ==
    (rpc = "located" /\ rvalid = "nil" /\ reg.Type \in CachedTypes)
    => \A r2 \in RegEntries :
        (r2.Type \in CachedTypes /\ Validate(r2) = "nil"
            /\ Identity(r2) # Identity(reg))
        => FilePath(r2, rroot, rcfg).path # rfp.path

\* C16: for a Registry of type http, FilePath(rootDir, cfgFilePath) is the
\* path rootDir/registries/http/<first 16 hex characters of SHA-256 of the
\* unrendered URL template>/<Version>/<name>, where name is the base name of
\* Path when Path is non-empty and registry.yaml otherwise; the result does
\* not depend on cfgFilePath, and changing only Version changes only the
\* version segment.
C16_HTTPFilePath ==
    (rpc = "located" /\ reg.Type = RegistryTypeHTTP)
    => LET name == IF reg.Path # "" THEN Base(reg.Path) ELSE "registry.yaml"
           expected(v) == Clean(rroot \o "/registries/http/"
                                \o URLHash16[reg.URL] \o "/" \o v \o "/"
                                \o name)
       IN  /\ rfp = [path |-> expected(reg.Version), err |-> "nil"]
           /\ \A cfg \in {"", "aqua.yaml", "ci/aqua.yaml", "/etc/aqua.yaml"} :
                FilePath(reg, rroot, cfg) = rfp
           /\ \A v \in {"v1", "v1.0.0", "v1.2.3"} :
                FilePath([reg EXCEPT !.Version = v], rroot, rcfg).path
                    = expected(v)
           /\ (reg.URL = TokenURL /\ reg.Version = "v1.0.0" /\ reg.Path = "")
                => rfp.path = "/root/.aqua/registries/http/06eeabea3ca08429/v1.0.0/registry.yaml"

\* FilePath has located an http registry whose Path has a directory part.
C16_Witness ==
    /\ rpc = "located"
    /\ reg.Type = RegistryTypeHTTP
    /\ reg.Path = "a/registry.yaml"
    /\ reg.Version = "v1.0.0"
    /\ rfp.path = "/root/.aqua/registries/http/06eeabea3ca08429/v1.0.0/registry.yaml"

\* C17: for every Registry of type github_content, Validate() returning nil
\* implies that RepoOwner and RepoName are non-empty and Ref is none of "",
\* "main", "master"; with owner and name set, Ref "main" or "master" is
\* rejected with the ref-cannot-be-main-or-master error and an empty Ref
\* with the ref-is-required error.
C17_ValidateGitHubContent ==
    (rpc \in {"validated", "located"} /\ reg.Type = RegistryTypeGitHubContent)
    => /\ rvalid = "nil" =>
            /\ reg.RepoOwner # "" /\ reg.RepoName # ""
            /\ reg.Ref \notin {"", "main", "master"}
       /\ (reg.RepoOwner # "" /\ reg.RepoName # "") =>
            /\ reg.Ref \in {"main", "master"}
                => rvalid = "errRefCannotBeMainOrMaster"
            /\ reg.Ref = "" => rvalid = "errRefIsRequired"

\* Validate has rejected a github_content registry whose ref is main.
C17_Witness ==
    /\ rpc = "validated"
    /\ reg.Type = RegistryTypeGitHubContent
    /\ reg.RepoOwner = "aquaproj" /\ reg.RepoName = "aqua-registry"
    /\ reg.Ref = "main"
    /\ rvalid = "errRefCannotBeMainOrMaster"

\* C18: for every Registry of type http, Validate() returning nil implies
\* that URL is non-empty, Version is non-empty and URL contains the literal
\* token {{.Version}}; a registry with non-empty URL and Version whose URL
\* lacks the token is rejected with the url-must-contain-version error.
C18_ValidateHTTP ==
    (rpc \in {"validated", "located"} /\ reg.Type = RegistryTypeHTTP)
    => /\ rvalid = "nil" =>
            /\ reg.URL # "" /\ reg.Version # ""
            /\ Contains(reg.URL, "{{.Version}}")
       /\ (reg.URL # "" /\ reg.Version # ""
                /\ ~Contains(reg.URL, "{{.Version}}"))
            => rvalid = "errURLMustContainVersion"

\* Validate has rejected the http registry https://e/v1/registry.yaml, v1.
C18_Witness ==
    /\ rpc = "validated"
    /\ reg.Type = RegistryTypeHTTP
    /\ reg.URL = PlainURL
    /\ reg.Version = "v1"
    /\ rvalid = "errURLMustContainVersion"

\* C19 as stated: reading any registry entry of type standard rewrites it
\* to type github_content with repo_owner aquaproj, repo_name aqua-registry
\* and path registry.yaml (name standard), preserving ref unchanged; after
\* reading, no registry has type standard, and registries of any other type
\* are left exactly as written.
C19_Original ==
    rpc = "read"
    => /\ entry.Type = RegistryTypeStandard =>
            reg = [entry EXCEPT !.Type = RegistryTypeGitHubContent,
                                !.Name = "standard",
                                !.RepoOwner = "aquaproj",
                                !.RepoName = "aqua-registry",
                                !.Path = "registry.yaml"]
       /\ reg.Type # RegistryTypeStandard
       /\ entry.Type # RegistryTypeStandard => reg = entry

\* C19, amended: reading a registry entry of type standard rewrites its
\* type to github_content and gives name standard, repo_owner aquaproj,
\* repo_name aqua-registry and path registry.yaml to each of these fields
\* that the entry leaves empty, keeping every field the entry sets, ref
\* included; after reading, no registry has type standard, and registries
\* of any other type are left exactly as written.
C19_StandardExpansion ==
    rpc = "read"
    => /\ entry.Type = RegistryTypeStandard =>
            /\ reg.Type = RegistryTypeGitHubContent
            /\ reg.Name = (IF entry.Name = "" THEN "standard" ELSE entry.Name)
            /\ reg.RepoOwner =
                (IF entry.RepoOwner = "" THEN "aquaproj" ELSE entry.RepoOwner)
            /\ reg.RepoName =
                (IF entry.RepoName = "" THEN "aqua-registry" ELSE entry.RepoName)
            /\ reg.Path =
                (IF entry.Path = "" THEN "registry.yaml" ELSE entry.Path)
            /\ reg.Ref = entry.Ref
            /\ reg.URL = entry.URL /\ reg.Version = entry.Version
            /\ reg.Format = entry.Format
       /\ reg.Type # RegistryTypeStandard
       /\ entry.Type # RegistryTypeStandard => reg = entry

\* The entry {type: standard, ref: v2.5.0} has been read.
C19_Witness ==
    /\ rpc = "read"
    /\ entry = Reg("", "standard", "", "", "v2.5.0", "", "", "", "")
    /\ reg = Reg("standard", "github_content", "aquaproj", "aqua-registry",
                 "v2.5.0", "registry.yaml", "", "", "")

\* C21: Validate accepts only the registry types local, github_content and
\* http: a local registry is valid exactly when Path is non-empty, and
\* every other Type value (the empty string and a "standard" that was not
\* expanded included) is rejected with the invalid-registry-type error.
C21_ValidateTypes ==
    rpc \in {"validated", "located", "relocated"} =>
        /\ rvalid = "nil" =>
            reg.Type \in {RegistryTypeLocal, RegistryTypeGitHubContent,
                          RegistryTypeHTTP}
        /\ reg.Type = RegistryTypeLocal =>
            /\ rvalid = "nil" <=> reg.Path # ""
            /\ reg.Path = "" => rvalid = "errPathIsRequired"
        /\ reg.Type \notin {RegistryTypeLocal, RegistryTypeGitHubContent,
                            RegistryTypeHTTP}
            => rvalid = "errInvalidRegistryType"

\* A standard registry built without the YAML expansion has been rejected
\* for its type.
C21_Witness ==
    /\ rpc = "validated"
    /\ reg.Type = RegistryTypeStandard
    /\ reg.RepoOwner = "x" /\ reg.RepoName = "y" /\ reg.Ref = "v2.5.0"
    /\ rvalid = "errInvalidRegistryType"

configFileNamesDottedFirst == <<".aqua.yaml", ".aqua.yml", "aqua.yaml", "aqua.yml">>

configFileNames == <<"aqua.yaml", "aqua.yml", ".aqua.yaml", ".aqua.yml">>

\* Paths that may exist: config files in the working directory, above it
\* and at the root, and two global config files.
FindPaths ==
    {"/w/p/aqua.yml", "/w/p/.aqua.yaml", "/w/aqua.yaml", "/w/.aqua.yml",
     "/aqua.yml", "/etc/aqua/g1.yaml", "/etc/aqua/g2.yaml"}

FindInit ==
    /\ ffiles \in SUBSET FindPaths
    /\ fwd \in {"/w/p", "/w"}
    /\ fexplicit \in {"", "custom/aqua.yaml"}
    /\ fglobals \in {<<>>, <<"/etc/aqua/g1.yaml", "/etc/aqua/g2.yaml">>,
                     <<"/etc/aqua/g2.yaml", "/etc/aqua/g1.yaml">>}
    /\ fpc = "Find"
    /\ fdir = ""
    /\ fret = [path |-> "", err |-> "none"]

\* finder.exist(p), and finder.fs.Stat(p) without error
exist(p) == p \in ffiles

FindReturn(path, err) ==
    /\ fret' = [path |-> path, err |-> err]
    /\ fpc' = "done"

\* Find up to the call of findconfig.Find.
Find ==
    /\ fpc = "Find"
    /\ IF fexplicit # ""
       THEN FindReturn(fexplicit, "nil") /\ UNCHANGED fdir
       ELSE /\ fpc' = "findconfig"
            /\ fdir' = fwd
            /\ UNCHANGED fret
    /\ UNCHANGED <<ffiles, fwd, fexplicit, fglobals>>
    /\ UNCHANGED findOthers

\* The first of names that exists in dir, "" when none does.
RECURSIVE firstExisting(_, _)
firstExisting(dir, names) ==
    IF names = <<>> THEN ""
    ELSE IF exist(Join(<<dir, Head(names)>>))
    THEN Join(<<dir, Head(names)>>)
    ELSE firstExisting(dir, Tail(names))

\* One round of findconfig.Find's loop: the names are looked for in the
\* directory; without a hit the search moves to the parent, and ends at the
\* root.
findconfigFind ==
    /\ fpc = "findconfig"
    /\ LET hit == firstExisting(fdir, configFileNames) IN
       IF hit # ""
       THEN FindReturn(hit, "nil") /\ UNCHANGED fdir
       ELSE IF fdir = "/" \/ fdir = ""
       THEN fpc' = "globals" /\ UNCHANGED <<fdir, fret>>
       ELSE fdir' = Dir(fdir) /\ UNCHANGED <<fpc, fret>>
    /\ UNCHANGED <<ffiles, fwd, fexplicit, fglobals>>
    /\ UNCHANGED findOthers

\* The first of paths that finder.fs.Stat finds, "" when there is none.
RECURSIVE firstStat(_)
firstStat(paths) ==
    IF paths = <<>> THEN ""
    ELSE IF exist(Head(paths)) THEN Head(paths)
    ELSE firstStat(Tail(paths))

\* The loop over globalConfigFilePaths, and ErrConfigFileNotFound.
findGlobals ==
    /\ fpc = "globals"
    /\ LET hit == firstStat(fglobals) IN
       IF hit # ""
       THEN FindReturn(hit, "nil")
       ELSE FindReturn("", "ErrConfigFileNotFound")
    /\ UNCHANGED <<ffiles, fwd, fexplicit, fglobals, fdir>>
    /\ UNCHANGED findOthers

FindNext ==
    \/ Find
    \/ findconfigFind
    \/ findGlobals

\* One call of Find; the other parts stay idle.
InitFind ==
    FindInit /\ ExecIdle /\ DlIdle /\ LinkIdle /\ ShimIdle /\ HTTPIdle
        /\ RegIdle

SpecFind == InitFind /\ [][FindNext]_vars

\* The directories from wd to the root, nearest first.
WalkDirs == IF fwd = "/w/p" THEN <<"/w/p", "/w", "/">> ELSE <<"/w", "/">>

\* The config file names, highest precedence first.
NamesInOrder == <<"aqua.yaml", "aqua.yml", ".aqua.yaml", ".aqua.yml">>

\* name in directory dir
InDir(dir, name) == IF dir = "/" THEN "/" \o name ELSE dir \o "/" \o name

\* C20: Find(wd, explicit, globals...) returns explicit unchanged whenever
\* it is non-empty; otherwise the config found by walking from wd toward the
\* file system root looking for aqua.yaml, aqua.yml, .aqua.yaml, .aqua.yml
\* in that precedence; otherwise the first path of globals, in list order,
\* that exists; and it fails with ErrConfigFileNotFound only when none of
\* these yields a path.
C20_Find ==
    fpc = "done" =>
    LET hits == {c \in (DOMAIN WalkDirs) \X (DOMAIN NamesInOrder) :
                    InDir(WalkDirs[c[1]], NamesInOrder[c[2]]) \in ffiles}
        before(a, b) == a[1] < b[1] \/ (a[1] = b[1] /\ a[2] < b[2])
        found == {k \in DOMAIN fglobals : fglobals[k] \in ffiles}
    IN  IF fexplicit # ""
        THEN fret = [path |-> fexplicit, err |-> "nil"]
        ELSE IF hits # {}
        THEN \E c \in hits :
                /\ \A o \in hits : o = c \/ before(c, o)
                /\ fret = [path |-> InDir(WalkDirs[c[1]], NamesInOrder[c[2]]),
                           err |-> "nil"]
        ELSE IF found # {}
        THEN \E k \in found :
                /\ \A l \in found : k <= l
                /\ fret = [path |-> fglobals[k], err |-> "nil"]
        ELSE fret = [path |-> "", err |-> "ErrConfigFileNotFound"]

\* Find has returned aqua.yaml of the working directory's parent, with a
\* name of lower precedence beside it, a config at the root and a global
\* config present as well.
C20_Witness ==
    /\ fpc = "done"
    /\ fexplicit = ""
    /\ fwd = "/w/p"
    /\ ffiles = {"/w/aqua.yaml", "/w/.aqua.yml", "/aqua.yml",
                 "/etc/aqua/g1.yaml"}
    /\ fglobals # <<>>
    /\ fret = [path |-> "/w/aqua.yaml", err |-> "nil"]

====
